---------------------------- MODULE Spec2Model ----------------------------
(***************************************************************************)
(* Model of the IEC 62056-21 readout engine of                             *)
(* components/iec62056/iec62056.cpp: the byte-level frame assembler        *)
(* (receive_frame_), the identification and data-line parsers, the retry   *)
(* policy and the loop() state machine, driven by a meter that puts frames *)
(* on the UART, a millisecond clock and trigger_readout() requests.        *)
(*                                                                         *)
(* Bytes are their numeric values.  Time is counted in clock units, every  *)
(* delay of the source is given in those units, and time is measured from  *)
(* the present: millis() is the origin and a timestamp field holds the     *)
(* offset of the moment it was taken, so that millis() - timestamp is the  *)
(* difference the source computes (its unsigned subtraction gives the true *)
(* difference as long as less than 2^32 ms passed).  A timestamp stops     *)
(* ageing at the horizon beyond which the source no longer tells its age   *)
(* apart.                                                                  *)
(***************************************************************************)
EXTENDS Integers, Sequences, FiniteSets, TLC

\* ------------------------------------------------------------------ bytes
ETX == 3
STX == 2
ACK == 6
SOH == 1
CR == 13
LF == 10
NUL == 0
SLASH == 47
BANG == 33
LPAR == 40
RPAR == 41

\* ----------------------------------------------------------------- bounds
\* connection_timeout_ms_, retry_delay_, update_interval_ms_ (configuration),
\* in clock units.
ConnectionTimeout == 2
RetryDelay == 1
UpdateInterval == 3
\* the delays passed to wait_(), in clock units
FirstReadoutDelay == 1
WakeupDelay == 1
SettleDelay == 1
\* the largest max_retries_ the model configures
MaxRetriesCfg == 2
\* capacity of in_buf_ (the source's MAX_IN_BUF_SIZE is larger)
MAX_IN_BUF_SIZE == 9
\* number of entries of obis_codes_ the session walks (the source has 13)
NumObisUsed == 2
\* number of registered sensors UPDATE_STATES iterates over
NumSensors == 1
\* the BEGIN counter of a cycle saturates here
MaxBegins == 5
\* see Arrive
MaxJunk == 1
\* see RxLines
MaxLineLen == 3
\* see ParseLines
MaxParseLen == 5
\* uint32_t arithmetic wraps at this value (2^32 in the source)
ClockWrap == 1024

\* -------------------------------------------------------- program tables
BAUDRATES == <<300, 600, 1200, 2400, 4800, 9600, 19200>>
MAX_BAUDRATE == BAUDRATES[Len(BAUDRATES)]
PROTO_B_MIN_BAUDRATE == BAUDRATES[2]
PROTO_B_RANGE_BEGIN == 65
PROTO_B_RANGE_END == 70
PROTO_C_RANGE_BEGIN == 48
PROTO_C_RANGE_END == 54
\* update_interval_ms_ == UINT32_MAX: no periodic readout
NEVER == 2 * (UpdateInterval + ConnectionTimeout + 1)

obis_codes_ ==
    << <<48, 70, 48, 56, 56, 48, 70, 70>>,   \* "0F0880FF"
       <<49, 48, 48, 55, 48, 48, 70, 70>>,   \* "100700FF"
       <<50, 52, 48, 55, 48, 48, 70, 70>>,   \* "240700FF"
       <<51, 56, 48, 55, 48, 48, 70, 70>>,   \* "380700FF"
       <<52, 67, 48, 55, 48, 48, 70, 70>>,   \* "4C0700FF"
       <<54, 48, 48, 57, 48, 48, 70, 70>>,   \* "600900FF"
       <<50, 48, 48, 55, 48, 48, 70, 70>>,   \* "200700FF"
       <<51, 52, 48, 55, 48, 48, 70, 70>>,   \* "340700FF"
       <<52, 56, 48, 55, 48, 48, 70, 70>>,   \* "480700FF"
       <<49, 70, 48, 55, 48, 48, 70, 70>>,   \* "1F0700FF"
       <<51, 51, 48, 55, 48, 48, 70, 70>>,   \* "330700FF"
       <<52, 55, 48, 55, 48, 48, 70, 70>>,   \* "470700FF"
       <<48, 68, 48, 55, 70, 70, 70, 70>> >> \* "0D07FFFF"
num_obis_codes_ == NumObisUsed

id_request == <<SLASH, 63, BANG, CR, LF>>
set_baud_and_programm == <<ACK, 48, 48, 49, CR, LF>>
set_password == <<SOH, 80, 49, STX, LPAR, 48, 48, 48, 48, 48, 48, 48, 48, RPAR, ETX, 97>>
battery_wakeup_sequence == [i \in 1..84 |-> NUL]

\* ------------------------------------------------------------ arithmetic
\* millis(): the present
millis == 0
\* unsigned subtraction of two clock readings
Sub(a, b) == (a - b) % ClockWrap

RECURSIVE XorBits(_, _, _)
XorBits(a, b, n) ==
    IF n = 0 THEN 0
    ELSE (((a % 2) + (b % 2)) % 2) + 2 * XorBits(a \div 2, b \div 2, n - 1)
\* the operands are taken as values, once
Xor8(a, b) == CHOOSE y \in {XorBits(p[1], p[2], 8) : p \in {<<a, b>>}} : TRUE

RECURSIVE XorRange(_, _, _)
\* the XOR of buf[0 .. n-1] folded into acc
XorRange(acc, buf, n) ==
    IF n <= 0 THEN acc ELSE Xor8(XorRange(acc, buf, n - 1), buf[n - 1])
update_lrc_(lrc, buf, size) == XorRange(lrc, buf, size)

RECURSIVE XorSeq(_)
XorSeq(s) == IF s = <<>> THEN 0 ELSE Xor8(Head(s), XorSeq(Tail(s)))

\* ------------------------------------------------------------- C strings
RECURSIVE StrLenFrom(_, _)
\* strlen(&buf[i]); reading stops at the end of the buffer
StrLenFrom(buf, i) ==
    IF i >= MAX_IN_BUF_SIZE \/ buf[i] = NUL THEN 0 ELSE 1 + StrLenFrom(buf, i + 1)
CStr(buf, i) == [k \in 1..StrLenFrom(buf, i) |-> buf[i + k - 1]]


\* ------------------------------------------------- identification parser
RECURSIVE GetIdScan(_, _)
\* the while loop of get_id_: the index of the first '/' met scanning down
\* from p, or -1 when p runs below the buffer
GetIdScan(buf, p) ==
    IF p < 0 THEN -1
    ELSE IF buf[p] = SLASH THEN p
    ELSE GetIdScan(buf, p - 1)

min_id_data_size == 7

\* a get_id_ that takes every frame for an identification
get_id_any(buf, frame_size) == [found |-> TRUE, p |-> 0, buf |-> buf]

\* found: a packet was returned; p: its index in the buffer; buf: the buffer
\* with the terminator written over the '\r'
get_id_(buf, frame_size) ==
    LET p == IF frame_size >= min_id_data_size
             THEN GetIdScan(buf, frame_size - 1 - 2)
             ELSE -1
    IN  IF p >= 0 /\ ~((MAX_IN_BUF_SIZE - 1 - p) < min_id_data_size)
        THEN [found |-> TRUE, p |-> p,
              buf |-> [buf EXCEPT ![frame_size - 2] = NUL]]
        ELSE [found |-> FALSE, p |-> -1, buf |-> buf]

set_protocol_(z, force_d) ==
    IF force_d THEN "D"
    ELSE IF z >= PROTO_B_RANGE_BEGIN /\ z <= PROTO_B_RANGE_END THEN "B"
    ELSE IF z >= PROTO_C_RANGE_BEGIN /\ z <= PROTO_C_RANGE_END THEN "C"
    ELSE "A"

\* a parse_id_ that takes packet[4] without looking at the length
parse_id_nolen(buf, p, force_d) ==
    [baud |-> buf[p + 4], mode |-> set_protocol_(buf[p + 4], force_d)]

\* baud: baud_rate_identification_; mode: mode_ after parse_id_(&buf[p])
parse_id_(buf, p, force_d) ==
    LET len == StrLenFrom(buf, p)
        z == IF len >= 5 THEN buf[p + 4] ELSE 0
    IN  [baud |-> z, mode |-> set_protocol_(z, force_d)]

\* ------------------------------------------------------- baud negotiator
identification_to_baud_rate_(z) ==
    IF z >= PROTO_B_RANGE_BEGIN /\ z <= PROTO_B_RANGE_END
    THEN BAUDRATES[1 + (1 + z - PROTO_B_RANGE_BEGIN)]
    ELSE IF z >= PROTO_C_RANGE_BEGIN /\ z <= PROTO_C_RANGE_END
    THEN BAUDRATES[1 + (z - PROTO_C_RANGE_BEGIN)]
    ELSE 0

\* a baud_rate_to_identification_ whose mode B branch forgets that its loop
\* starts at the second entry of the table
baud_rate_to_identification_shifted(baud_rate, mode) ==
    IF mode = "B"
    THEN IF \E i \in 1..(Len(BAUDRATES) - 1) : baud_rate = BAUDRATES[i + 1]
         THEN PROTO_B_RANGE_BEGIN
              + (CHOOSE i \in 1..(Len(BAUDRATES) - 1) : baud_rate = BAUDRATES[i + 1])
         ELSE PROTO_B_RANGE_BEGIN
    ELSE IF \E i \in 0..(Len(BAUDRATES) - 1) : baud_rate = BAUDRATES[i + 1]
         THEN PROTO_C_RANGE_BEGIN
              + (CHOOSE i \in 0..(Len(BAUDRATES) - 1) : baud_rate = BAUDRATES[i + 1])
         ELSE PROTO_C_RANGE_BEGIN

baud_rate_to_identification_(baud_rate, mode) ==
    IF mode = "B"
    THEN IF \E i \in 1..(Len(BAUDRATES) - 1) : baud_rate = BAUDRATES[i + 1]
         THEN PROTO_B_RANGE_BEGIN
              + (CHOOSE i \in 1..(Len(BAUDRATES) - 1) : baud_rate = BAUDRATES[i + 1]) - 1
         ELSE PROTO_B_RANGE_BEGIN
    ELSE IF \E i \in 0..(Len(BAUDRATES) - 1) : baud_rate = BAUDRATES[i + 1]
         THEN PROTO_C_RANGE_BEGIN
              + (CHOOSE i \in 0..(Len(BAUDRATES) - 1) : baud_rate = BAUDRATES[i + 1])
         ELSE PROTO_C_RANGE_BEGIN

\* ---------------------------------------------------------- frame builder
build_readout_command_(obis_code) ==
    LET body == <<82, 49, STX>> \o obis_code \o <<LPAR, RPAR, ETX>>
    IN  <<SOH>> \o body \o <<XorSeq(body)>>

\* ------------------------------------------------------- data-line parser
max_obis_len == 25

ObisChar(c) ==
    \/ c = 58 \/ c = 46 \/ c = 45 \/ c = 42
    \/ (c >= 48 /\ c <= 57)
    \/ (c >= 65 /\ c <= 90)

validate_obis_(obis) ==
    IF obis = <<>> THEN TRUE
    ELSE IF Len(obis) > max_obis_len THEN FALSE
    ELSE \A i \in 1..Len(obis) : ObisChar(obis[i])

RECURSIVE ParseScan(_, _, _)
\* the scan loop of parse_line_; 0 is the null pointer, i the 1-based position
ParseScan(line, i, st) ==
    IF i > Len(line) THEN st
    ELSE LET ch == line[i]
             st1 == IF ch = LPAR /\ st.open_bracket = 0
                       THEN [st EXCEPT !.open_bracket = i]
                    ELSE IF ch = RPAR /\ st.close_bracket = 0
                       THEN [st EXCEPT !.close_bracket = i]
                    ELSE IF ch = LPAR /\ st.open_bracket2 = 0
                       THEN [st EXCEPT !.open_bracket2 = i]
                    ELSE IF ch = RPAR /\ st.close_bracket2 = 0
                       THEN [st EXCEPT !.close_bracket2 = i]
                    ELSE st
         IN  CHOOSE y \in {ParseScan(line, i + 1, x) : x \in {st1}} : TRUE

parse_line_(line) ==
    LET st == ParseScan(line, 1, [open_bracket |-> 0, close_bracket |-> 0,
                                  open_bracket2 |-> 0, close_bracket2 |-> 0])
    IN  IF st.open_bracket = 0 \/ st.close_bracket = 0
           \/ st.close_bracket < st.open_bracket
        THEN [ok |-> FALSE, obis |-> <<>>, value1 |-> <<>>, value2 |-> <<>>]
        ELSE LET obis == SubSeq(line, 1, st.open_bracket - 1)
                 value1 == SubSeq(line, st.open_bracket + 1, st.close_bracket - 1)
                 value2 == IF st.open_bracket2 # 0 /\ st.close_bracket2 # 0
                              /\ st.close_bracket2 > st.open_bracket2
                           THEN SubSeq(line, st.open_bracket2 + 1,
                                       st.close_bracket2 - 1)
                           ELSE <<>>
             IN  [ok |-> validate_obis_(obis), obis |-> obis,
                  value1 |-> value1, value2 |-> value2]


\* ------------------------------------------------------------------ state
VARIABLES
    \* configuration
    force_mode_d_, battery_meter_, max_retries_, update_interval_ms_,
    config_baud_rate_max_bps_,
    \* session
    state_, wait_next_state_, wait_start_timestamp_, wait_period_ms_,
    retry_counter_, scheduled_timestamp_set_,
    scheduled_connection_start_timestamp_,
    last_transmission_from_meter_timestamp_,
    current_obis_index_, mode_, baud_rate_identification_,
    baud_rate_char, new_baudrate, mode_d_empty_frame_received,
    sensors_iterator_,
    \* frame buffers
    in_buf_, data_in_size_, out_buf_, readout_lrc_, lrc_,
    \* transport
    uart_rx, uart_baud, setup_done,
    \* the number of frames the meter still sends out of turn
    junk_left,
    \* the bytes of a line that are still on their way to the UART
    rx_pending,
    \* observer of the receive_frame_ calls made for that line; acc: the bytes
    \* read since the last frame was completed, the last MAX_IN_BUF_SIZE of them
    h_rx,
    \* observers: h_cyc of the readout cycle, h_att of the current attempt
    h_cyc, h_att,
    \* the meter on the line: the identification frame it answers with and the
    \* frames it sends during the readout
    meter,
    \* the last application of a parser or of the baud negotiator's tables
    pure

cfg == <<force_mode_d_, battery_meter_, max_retries_, update_interval_ms_,
         config_baud_rate_max_bps_>>
\* what the engine's handlers never write
rxline == <<rx_pending, h_rx, meter, pure>>
waitv == <<wait_next_state_, wait_start_timestamp_, wait_period_ms_>>
sess == <<state_, wait_next_state_, wait_start_timestamp_, wait_period_ms_,
          retry_counter_, scheduled_timestamp_set_, h_cyc>>
idv == <<mode_, baud_rate_identification_>>
baudv == <<baud_rate_char, new_baudrate, uart_baud>>
rxv == <<in_buf_, data_in_size_, uart_rx, out_buf_, readout_lrc_, lrc_>>
vars == <<cfg, junk_left, rxline, sess, scheduled_connection_start_timestamp_,
          last_transmission_from_meter_timestamp_, current_obis_index_, idv,
          baudv, mode_d_empty_frame_received, sensors_iterator_, rxv,
          setup_done, h_att>>

connection_timeout_ms_ == ConnectionTimeout
retry_delay_ == RetryDelay

is_wait_state_ == state_ = "WAIT" \/ state_ = "INFINITE_WAIT"
is_periodic_readout_enabled_ == update_interval_ms_ # NEVER
check_wait_period_ == Sub(millis, wait_start_timestamp_) >= wait_period_ms_

\* ---------------------------------------------------------------- observers
NoAttempt ==
    [wire |-> <<>>, sink |-> [n |-> 0, last |-> <<>>], last |-> -1,
     ppp |-> 0, resp |-> 0, aborted |-> "", nul |-> 0]

\* what a written frame is, from its bytes
TxKind(frame) ==
    IF frame = id_request THEN <<"ID", <<>> >>
    ELSE IF frame = set_password THEN <<"PWD", <<>> >>
    ELSE IF Len(frame) = 6 /\ frame[1] = ACK /\ frame[5] = CR /\ frame[6] = LF
    THEN <<"BAUD", frame>>
    ELSE IF \E i \in 1..Len(obis_codes_) : frame = build_readout_command_(obis_codes_[i])
    THEN <<"REQ", <<(CHOOSE i \in 1..Len(obis_codes_) :
                        frame = build_readout_command_(obis_codes_[i])) - 1>> >>
    ELSE IF \A i \in 1..Len(frame) : frame[i] = NUL THEN <<"WAKE", <<>> >>
    ELSE <<"OTHER", frame>>

\* something happened on the wire: the frames received before it are forgotten
ObsWire(h, ev) ==
    [h EXCEPT !.wire = Append(@, ev), !.last = -1, !.ppp = 0, !.resp = 0]
\* a frame was written to the UART (send_frame_)
ObsTx(h, frame) == ObsWire(h, TxKind(frame))
\* the UART's baud rate was set
ObsBaud(h, rate) == ObsWire(h, <<"SETBAUD", <<rate>> >>)
\* receive_frame_ returned a frame of frame_size bytes in buf.  last: its
\* first byte; ppp: 1 after a frame starting with SOH, 2 when the next frame
\* starts with '('; resp: 1 once a frame starting with STX was received, 2
\* once an ETX-terminated frame followed it
ObsRx(h, buf, frame_size) ==
    LET etx == frame_size >= 2 /\ buf[frame_size - 2] = ETX
    IN  [h EXCEPT !.last = buf[0],
                  !.ppp = IF buf[0] = SOH THEN 1
                          ELSE IF buf[0] = LPAR /\ @ = 1 THEN 2 ELSE 0,
                  !.resp = IF etx /\ @ >= 1 THEN 2
                           ELSE IF buf[0] = STX /\ @ = 0 THEN 1 ELSE @]
\* in_buf_[i] = 0 was executed: nul is the index i of the last such write,
\* in the buffer or not
ObsTerminate(h, i) == [h EXCEPT !.nul = i]
\* a frame of frame_size bytes was received and terminated as a string
ObsLine(h, buf, frame_size) ==
    ObsTerminate(ObsRx(h, buf, frame_size), frame_size - 2)
\* a value was handed to the matching sensors (set_sensor_value_): sink.last
\* is the call's arguments, sink.n the parity of the number of calls
ObsDeliver(h, pl) ==
    [h EXCEPT !.sink = [n |-> 1 - @.n, last |-> <<pl.obis, pl.value1, pl.value2>>]]

NoLine ==
    [line |-> <<>>, echo |-> FALSE, split |-> FALSE, n |-> 0, ret |-> 0,
     buf |-> <<>>, acc |-> <<>>]

\* the last MAX_IN_BUF_SIZE bytes of s
Window(s) ==
    IF Len(s) <= MAX_IN_BUF_SIZE THEN s
    ELSE SubSeq(s, Len(s) - MAX_IN_BUF_SIZE + 1, Len(s))

\* the readout cycle: begins counts the times state_ was set to BEGIN,
\* in_cycle holds from the BEGIN handler to the end of the attempt, preempted
\* once trigger_readout changed the state meanwhile, over tells how
\* wait_next_readout_ was reached, begun holds once the BEGIN handler ran in
\* the cycle
NoCycle ==
    [begins |-> 0, preempted |-> FALSE, in_cycle |-> FALSE, over |-> "no",
     begun |-> FALSE]
\* state_ is set to BEGIN
ObsBegin(c) ==
    IF c.over # "no" THEN [NoCycle EXCEPT !.begins = 1]
    ELSE [c EXCEPT !.begins = IF @ < MaxBegins THEN @ + 1 ELSE @]
\* the cycle ends
ObsOver(c, why) == [c EXCEPT !.in_cycle = FALSE, !.over = why]

\* ------------------------------------------------------------ wait, retry
set_next_state_(next_state) ==
    /\ state_' = next_state
    /\ UNCHANGED <<waitv, retry_counter_, scheduled_timestamp_set_, h_cyc>>

\* wait_(ms, state) with the cycle observer's next value c
WaitC(ms, state, c) ==
    /\ state_' = "WAIT"
    /\ wait_start_timestamp_' = millis
    /\ wait_period_ms_' = ms
    /\ wait_next_state_' = state
    /\ h_cyc' = c

wait_(ms, state) ==
    /\ WaitC(ms, state, h_cyc)
    /\ UNCHANGED <<retry_counter_, scheduled_timestamp_set_>>

\* a wait_next_readout_ without the test for a cycle longer than the interval
NextReadoutNoOverrun(why) ==
    IF force_mode_d_
    THEN /\ state_' = "MODE_D_WAIT"
         /\ h_cyc' = ObsOver(h_cyc, why)
         /\ UNCHANGED <<waitv, retry_counter_, scheduled_timestamp_set_>>
    ELSE LET delta == Sub(millis, scheduled_connection_start_timestamp_)
             actual_wait_time == Sub(update_interval_ms_, delta)
         IN  /\ retry_counter_' = 0
             /\ scheduled_timestamp_set_' = FALSE
             /\ IF is_periodic_readout_enabled_
                THEN WaitC(actual_wait_time, "BEGIN", ObsOver(h_cyc, why))
                ELSE /\ state_' = "INFINITE_WAIT"
                     /\ h_cyc' = ObsOver(h_cyc, why)
                     /\ UNCHANGED waitv

\* a wait_next_readout_ that forgets retry_counter_reset_()
NextReadoutKeepCounter(why) ==
    IF force_mode_d_
    THEN /\ state_' = "MODE_D_WAIT"
         /\ h_cyc' = ObsOver(h_cyc, why)
         /\ UNCHANGED <<waitv, retry_counter_, scheduled_timestamp_set_>>
    ELSE /\ UNCHANGED retry_counter_
         /\ scheduled_timestamp_set_' = FALSE
         /\ IF is_periodic_readout_enabled_
            THEN WaitC(0, "BEGIN", ObsOver(h_cyc, why))
            ELSE /\ state_' = "INFINITE_WAIT"
                 /\ h_cyc' = ObsOver(h_cyc, why)
                 /\ UNCHANGED waitv

\* wait_next_readout_, reached as the observer's why tells
NextReadoutC(why) ==
    IF force_mode_d_
    THEN /\ state_' = "MODE_D_WAIT"
         /\ h_cyc' = ObsOver(h_cyc, why)
         /\ UNCHANGED <<waitv, retry_counter_, scheduled_timestamp_set_>>
    ELSE LET delta == Sub(millis, scheduled_connection_start_timestamp_)
             actual_wait_time ==
                 IF delta > update_interval_ms_ /\ is_periodic_readout_enabled_
                 THEN 0
                 ELSE Sub(update_interval_ms_, delta)
         IN  /\ retry_counter_' = 0
             /\ scheduled_timestamp_set_' = FALSE
             /\ IF is_periodic_readout_enabled_
                THEN WaitC(actual_wait_time, "BEGIN", ObsOver(h_cyc, why))
                ELSE /\ state_' = "INFINITE_WAIT"
                     /\ h_cyc' = ObsOver(h_cyc, why)
                     /\ UNCHANGED waitv

wait_next_readout_ == NextReadoutC("delivered")

\* a retry_or_sleep_ that allows one retry too many
retry_or_sleep_off_by_one ==
    IF force_mode_d_
    THEN /\ state_' = "MODE_D_WAIT"
         /\ h_cyc' = [h_cyc EXCEPT !.in_cycle = FALSE]
         /\ UNCHANGED <<waitv, retry_counter_, scheduled_timestamp_set_>>
    ELSE IF retry_counter_ > max_retries_
    THEN NextReadoutC("exhausted")
    ELSE /\ retry_counter_' = retry_counter_ + 1
         /\ WaitC(retry_delay_, "BEGIN", [h_cyc EXCEPT !.in_cycle = FALSE])
         /\ UNCHANGED scheduled_timestamp_set_

retry_or_sleep_ ==
    IF force_mode_d_
    THEN /\ state_' = "MODE_D_WAIT"
         /\ h_cyc' = [h_cyc EXCEPT !.in_cycle = FALSE]
         /\ UNCHANGED <<waitv, retry_counter_, scheduled_timestamp_set_>>
    ELSE IF retry_counter_ >= max_retries_
    THEN NextReadoutC("exhausted")
    ELSE /\ retry_counter_' = retry_counter_ + 1
         /\ WaitC(retry_delay_, "BEGIN", [h_cyc EXCEPT !.in_cycle = FALSE])
         /\ UNCHANGED scheduled_timestamp_set_


\* --------------------------------------------------------- frame assembler
\* the state receive_frame_ works on, and its return value ret
RxStart ==
    [buf |-> in_buf_, size |-> data_in_size_, rx |-> uart_rx, out |-> out_buf_,
     rlrc |-> readout_lrc_, lrc |-> lrc_,
     ltx |-> last_transmission_from_meter_timestamp_, ret |-> 0]

\* memmove(in_buf_, in_buf_ + 1, data_in_size_ - 1)
ShiftLeft(buf, size) ==
    [i \in 0..(MAX_IN_BUF_SIZE - 1) |-> IF i < size - 1 THEN buf[i + 1] ELSE buf[i]]

\* the echo check: the accumulated bytes are the frame last written
IsEcho(buf, size, out) ==
    size = Len(out) /\ \A i \in 1..Len(out) : out[i] = buf[i - 1]

RECURSIVE RxLoop(_, _)
\* the while loop of receive_frame_; k iterations fit the 15 ms budget
RxLoop(r, k) ==
    IF k = 0 THEN r
    ELSE
      LET full == ~(r.size < MAX_IN_BUF_SIZE)
          buf0 == IF full THEN ShiftLeft(r.buf, r.size) ELSE r.buf
      IN  IF r.rx = <<>> THEN [r EXCEPT !.buf = buf0]
          ELSE
            LET size1 == IF full THEN r.size ELSE r.size + 1
                buf1 == [buf0 EXCEPT ![size1 - 1] = Head(r.rx)]
                r1 == [r EXCEPT !.buf = buf1, !.size = size1, !.rx = Tail(r.rx)]
                done == [r1 EXCEPT !.ltx = millis, !.ret = size1, !.size = 0]
            IN  IF buf1[size1 - 1] = ACK THEN done
                ELSE IF size1 >= 2 /\ buf1[size1 - 2] = ETX
                THEN [done EXCEPT !.rlrc = buf1[size1 - 1]]
                ELSE IF buf1[size1 - 1] = STX
                THEN [done EXCEPT !.lrc = 0]
                ELSE IF size1 >= 2 /\ buf1[size1 - 2] = CR /\ buf1[size1 - 1] = LF
                THEN IF IsEcho(buf1, size1, r.out)
                     THEN [r1 EXCEPT !.out = <<>>, !.size = 0]
                     ELSE done
                ELSE CHOOSE y \in {RxLoop(x, k - 1) : x \in {r1}} : TRUE

\* a receive_frame_ that starts every call with an empty in_buf_
receive_frame_restart(k) ==
    IF Len(uart_rx) <= 0 THEN RxStart
    ELSE RxLoop([RxStart EXCEPT !.size = 0], k)

receive_frame_(k) == IF Len(uart_rx) <= 0 THEN RxStart ELSE RxLoop(RxStart, k)

\* the number of iterations the 15 ms budget leaves to the while loop of a
\* receive_frame_ call made by loop(): enough to find the FIFO empty
Budgets == {Len(uart_rx) + 1}

\* in_buf_[i] = 0; a write outside the buffer leaves the buffer as it was
\* and lands in a member of the component that the model does not hold
Terminate(buf, i) ==
    IF i \in 0..(MAX_IN_BUF_SIZE - 1) THEN [buf EXCEPT ![i] = NUL] ELSE buf

RECURSIVE ReadChunks(_, _)
\* clear_uart_input_buffer_: read_array(in_buf_, len) until nothing is left
ReadChunks(buf, rx) ==
    IF Len(rx) <= 0 THEN buf
    ELSE LET len == IF Len(rx) < MAX_IN_BUF_SIZE THEN Len(rx) ELSE MAX_IN_BUF_SIZE
         IN  ReadChunks([i \in 0..(MAX_IN_BUF_SIZE - 1) |->
                            IF i < len THEN rx[i + 1] ELSE buf[i]],
                        SubSeq(rx, len + 1, Len(rx)))

\* the receive_frame_ result r is stored; buf is in_buf_ after the handler
StoreRx(r, buf) ==
    /\ in_buf_' = buf
    /\ data_in_size_' = r.size
    /\ uart_rx' = r.rx
    /\ out_buf_' = r.out
    /\ readout_lrc_' = r.rlrc


\* ------------------------------------------------------------ environment
\* the frames the meter sends
F_IdC == <<SLASH, 88, 89, 90, 53, CR, LF>>       \* "/XYZ5\r\n"
F_IdB == <<SLASH, 88, 89, 90, 65, CR, LF>>       \* "/XYZA\r\n"
F_IdA == <<SLASH, 88, 89, 90, 122, CR, LF>>      \* "/XYZz\r\n"
F_Soh == <<SOH, 80, 48, STX>>                    \* SOH "P0" STX
F_Par == <<LPAR, 48, RPAR, ETX, 50>>             \* "(0)" ETX BCC
F_Ack == <<ACK>>
F_Stx == <<STX>>
F_Data == <<49, LPAR, 50, RPAR, ETX, 1>>         \* "1(2)" ETX BCC
F_DataBadBcc == <<49, LPAR, 50, RPAR, ETX, 64>>  \* "1(2)" ETX, wrong BCC
F_DataBadLine == <<49, 50, ETX, 0>>              \* "12" ETX BCC
F_Line == <<49, LPAR, 50, RPAR, CR, LF>>         \* "1(2)\r\n"
F_LineBad == <<49, 50, CR, LF>>                  \* "12\r\n"
F_Empty == <<CR, LF>>
F_End == <<BANG, CR, LF>>

\* what a meter sends
MeterFrames ==
    {F_IdC, F_IdB, F_IdA, F_Soh, F_Par, F_Ack, F_Stx, F_Data, F_DataBadBcc,
     F_DataBadLine, F_Line, F_LineBad, F_Empty, F_End}

\* a meter that identifies itself as a mode C meter and answers every
\* request with one ETX-terminated frame
PlainMeter ==
    [id |-> F_IdC,
     readout |-> {F_Data, F_DataBadBcc, F_DataBadLine},
     lines |-> {F_Line, F_LineBad, F_Empty, F_End}]

\* the frames a meter that keeps to the protocol sends next
InTurn ==
    CASE state_ = "GET_IDENTIFICATION" -> {meter.id}
      [] state_ = "WAIT_FOR_PPP" -> {F_Soh}
      [] state_ = "WAIT_FOR_PPP_READ_DATA" -> {F_Par}
      [] state_ = "WAIT_FOR_ACK" -> {F_Ack}
      [] state_ = "WAIT_FOR_STX" -> {F_Stx}
      [] state_ = "READOUT" -> meter.readout
      [] state_ = "MODE_D_WAIT" -> {meter.id}
      [] state_ = "MODE_D_READOUT" -> meter.lines
      [] OTHER -> {}

\* no parser or table was applied yet
NoCall == [fn |-> "none"]

\* the component after construction and configuration
Construct(force, battery, retries, interval, cap) ==
    /\ force_mode_d_ = force
    /\ battery_meter_ = battery
    /\ max_retries_ = retries
    /\ update_interval_ms_ = interval
    /\ config_baud_rate_max_bps_ = cap
    /\ state_ = "INFINITE_WAIT"
    /\ wait_next_state_ = "INFINITE_WAIT"
    /\ wait_start_timestamp_ = 0
    /\ wait_period_ms_ = 0
    /\ retry_counter_ = 0
    /\ scheduled_timestamp_set_ = FALSE
    /\ scheduled_connection_start_timestamp_ = 0
    /\ last_transmission_from_meter_timestamp_ = 0
    /\ current_obis_index_ = 0
    /\ mode_ = "A"
    /\ baud_rate_identification_ = 0
    /\ baud_rate_char = 0
    /\ new_baudrate = 0
    /\ mode_d_empty_frame_received = FALSE
    /\ sensors_iterator_ = 0
    /\ in_buf_ = [i \in 0..(MAX_IN_BUF_SIZE - 1) |-> NUL]
    /\ data_in_size_ = 0
    /\ out_buf_ = <<>>
    /\ readout_lrc_ = 0
    /\ lrc_ = 0
    /\ uart_rx = <<>>
    /\ uart_baud = 300
    /\ setup_done = FALSE
    /\ h_cyc = NoCycle
    /\ h_att = NoAttempt
    /\ rx_pending = <<>>
    /\ h_rx = NoLine
    /\ pure = NoCall

\* the configurations of Init: battery_meter_, max_retries_, update_interval_ms_
Configurations ==
    {<<FALSE, retries, UpdateInterval>> : retries \in 0..MaxRetriesCfg}
        \cup {<<FALSE, 1, NEVER>>, <<TRUE, 0, NEVER>>}

\* modes A, B, C with a meter that keeps to the protocol
Init ==
    /\ \E c \in Configurations : Construct(FALSE, c[1], c[2], c[3], 0)
    /\ junk_left = 0
    /\ meter = PlainMeter

\* modes A, B, C with a meter that sends frames out of turn
InitF ==
    /\ \E cap \in {0, 2400} : Construct(FALSE, FALSE, 1, UpdateInterval, cap)
    /\ junk_left = MaxJunk
    /\ meter = PlainMeter

\* forced mode D
InitD ==
    /\ Construct(TRUE, FALSE, 1, UpdateInterval, 0)
    /\ junk_left = MaxJunk
    /\ meter = PlainMeter

\* a timestamp one clock unit later, unless it is horizon old already
Older(ts, horizon) == IF Sub(millis, ts) < horizon THEN ts - 1 ELSE ts

\* millis() advances by one
ClockAdvance ==
    /\ wait_start_timestamp_' = Older(wait_start_timestamp_, wait_period_ms_)
    /\ last_transmission_from_meter_timestamp_' =
           Older(last_transmission_from_meter_timestamp_, connection_timeout_ms_)
    /\ scheduled_connection_start_timestamp_' =
           Older(scheduled_connection_start_timestamp_,
                 IF is_periodic_readout_enabled_ THEN update_interval_ms_ + 1 ELSE 0)
    /\ UNCHANGED <<cfg, junk_left, rxline, state_, wait_next_state_, wait_period_ms_,
                   retry_counter_, scheduled_timestamp_set_, h_cyc,
                   current_obis_index_, idv, baudv, mode_d_empty_frame_received,
                   sensors_iterator_, rxv, setup_done, h_att>>

\* time passes while the engine waits
WaitElapses == state_ = "WAIT" /\ ClockAdvance

\* bytes arrive in the UART's receive FIFO, once the bytes before them were
\* read and not between two cycles; the meter sends junk_left more frames out
\* of turn
Arrive(bytes) ==
    /\ setup_done
    /\ uart_rx = <<>>
    /\ state_ # "INFINITE_WAIT"
    /\ state_ = "WAIT" => wait_next_state_ # "BEGIN"
    /\ bytes \in InTurn \/ junk_left > 0
    /\ uart_rx' = bytes
    /\ junk_left' = IF bytes \in InTurn THEN junk_left ELSE junk_left - 1
    /\ UNCHANGED <<cfg, rxline, sess, scheduled_connection_start_timestamp_,
                   last_transmission_from_meter_timestamp_, current_obis_index_,
                   idv, baudv, mode_d_empty_frame_received, sensors_iterator_,
                   in_buf_, data_in_size_, out_buf_, readout_lrc_, lrc_,
                   setup_done, h_att>>

MeterSend == \E f \in MeterFrames \cup InTurn : Arrive(f)

\* half-duplex line: the frame last written comes back
Echo == out_buf_ # <<>> /\ Arrive(out_buf_)

setup ==
    /\ ~setup_done
    /\ setup_done' = TRUE
    /\ last_transmission_from_meter_timestamp_' = millis
    /\ IF force_mode_d_ THEN set_next_state_("MODE_D_WAIT")
       ELSE IF is_periodic_readout_enabled_ THEN wait_(FirstReadoutDelay, "BEGIN")
       ELSE set_next_state_("INFINITE_WAIT")
    /\ in_buf_' = ReadChunks(in_buf_, uart_rx)
    /\ uart_rx' = <<>>
    /\ data_in_size_' = 0
    /\ UNCHANGED <<cfg, junk_left, rxline, scheduled_connection_start_timestamp_,
                   current_obis_index_, idv, baudv, mode_d_empty_frame_received,
                   sensors_iterator_, out_buf_, readout_lrc_, lrc_, h_att>>

trigger_readout ==
    /\ setup_done
    /\ IF force_mode_d_ THEN UNCHANGED sess
       ELSE IF ~is_wait_state_ THEN UNCHANGED sess
       ELSE /\ state_' = "BEGIN"
            /\ h_cyc' = [ObsBegin(h_cyc) EXCEPT !.preempted = @ \/ h_cyc.in_cycle]
            /\ UNCHANGED <<waitv, retry_counter_, scheduled_timestamp_set_>>
    /\ UNCHANGED <<cfg, junk_left, rxline, scheduled_connection_start_timestamp_,
                   last_transmission_from_meter_timestamp_, current_obis_index_,
                   idv, baudv, mode_d_empty_frame_received, sensors_iterator_,
                   rxv, setup_done, h_att>>

\* ------------------------------------------------------------------ loop()
TimeoutGuard ==
    /\ ~is_wait_state_
    /\ Sub(millis, last_transmission_from_meter_timestamp_) >= connection_timeout_ms_

LoopTimeout ==
    /\ setup_done
    /\ TimeoutGuard
    /\ retry_or_sleep_
    /\ h_att' = [h_att EXCEPT !.aborted = state_]
    /\ UNCHANGED <<cfg, junk_left, rxline, scheduled_connection_start_timestamp_,
                   last_transmission_from_meter_timestamp_, current_obis_index_,
                   idv, baudv, mode_d_empty_frame_received, sensors_iterator_,
                   rxv, setup_done>>

\* a loop() without the timeout guard in front of the switch
InStateUnguarded(s) == setup_done /\ state_ = s

\* loop() reaches the switch in state s
InState(s) == setup_done /\ ~TimeoutGuard /\ state_ = s

LoopInfiniteWait ==
    /\ InState("INFINITE_WAIT")
    /\ last_transmission_from_meter_timestamp_' = millis
    /\ h_att' = NoAttempt
    /\ UNCHANGED <<cfg, junk_left, rxline, sess, scheduled_connection_start_timestamp_,
                   current_obis_index_, idv, baudv, mode_d_empty_frame_received,
                   sensors_iterator_, rxv, setup_done>>

LoopWait ==
    /\ InState("WAIT")
    /\ IF check_wait_period_
       THEN /\ state_' = wait_next_state_
            /\ h_cyc' = IF wait_next_state_ = "BEGIN" THEN ObsBegin(h_cyc) ELSE h_cyc
       ELSE UNCHANGED <<state_, h_cyc>>
    /\ last_transmission_from_meter_timestamp_' = millis
    /\ h_att' = IF wait_next_state_ = "BEGIN" THEN NoAttempt ELSE h_att
    /\ UNCHANGED <<cfg, junk_left, rxline, waitv, retry_counter_, scheduled_timestamp_set_,
                   scheduled_connection_start_timestamp_, current_obis_index_,
                   idv, baudv, mode_d_empty_frame_received, sensors_iterator_,
                   rxv, setup_done>>

\* a BEGIN that leaves current_obis_index_ where the last attempt left it
LoopBeginKeepIndex ==
    /\ InState("BEGIN")
    /\ IF ~scheduled_timestamp_set_
       THEN /\ scheduled_connection_start_timestamp_' = millis
            /\ scheduled_timestamp_set_' = TRUE
       ELSE UNCHANGED <<scheduled_connection_start_timestamp_, scheduled_timestamp_set_>>
    /\ state_' = IF battery_meter_ THEN "BATTERY_WAKEUP" ELSE "SEND_REQUEST"
    /\ uart_baud' = 300
    /\ last_transmission_from_meter_timestamp_' = millis
    /\ h_cyc' = [h_cyc EXCEPT !.in_cycle = TRUE, !.begun = TRUE]
    /\ h_att' = ObsBaud(NoAttempt, 300)
    /\ UNCHANGED <<cfg, junk_left, rxline, waitv, retry_counter_, idv,
                   baud_rate_char, new_baudrate, current_obis_index_,
                   mode_d_empty_frame_received, sensors_iterator_, rxv,
                   setup_done>>

\* a BEGIN that leaves the baud rate as the last attempt set it
LoopBeginKeepBaud ==
    /\ InState("BEGIN")
    /\ current_obis_index_' = 0
    /\ IF ~scheduled_timestamp_set_
       THEN /\ scheduled_connection_start_timestamp_' = millis
            /\ scheduled_timestamp_set_' = TRUE
       ELSE UNCHANGED <<scheduled_connection_start_timestamp_, scheduled_timestamp_set_>>
    /\ state_' = IF battery_meter_ THEN "BATTERY_WAKEUP" ELSE "SEND_REQUEST"
    /\ last_transmission_from_meter_timestamp_' = millis
    /\ h_cyc' = [h_cyc EXCEPT !.in_cycle = TRUE, !.begun = TRUE]
    /\ h_att' = NoAttempt
    /\ UNCHANGED <<cfg, junk_left, rxline, waitv, retry_counter_, idv, baudv,
                   mode_d_empty_frame_received, sensors_iterator_, rxv,
                   setup_done>>

LoopBegin ==
    /\ InState("BEGIN")
    /\ current_obis_index_' = 0
    /\ IF ~scheduled_timestamp_set_
       THEN /\ scheduled_connection_start_timestamp_' = millis
            /\ scheduled_timestamp_set_' = TRUE
       ELSE UNCHANGED <<scheduled_connection_start_timestamp_, scheduled_timestamp_set_>>
    /\ state_' = IF battery_meter_ THEN "BATTERY_WAKEUP" ELSE "SEND_REQUEST"
    /\ uart_baud' = 300
    /\ last_transmission_from_meter_timestamp_' = millis
    /\ h_cyc' = [h_cyc EXCEPT !.in_cycle = TRUE, !.begun = TRUE]
    /\ h_att' = ObsBaud(NoAttempt, 300)
    /\ UNCHANGED <<cfg, junk_left, rxline, waitv, retry_counter_, idv, baud_rate_char, new_baudrate,
                   mode_d_empty_frame_received, sensors_iterator_, rxv,
                   setup_done>>

LoopBatteryWakeup ==
    /\ InState("BATTERY_WAKEUP")
    /\ out_buf_' = battery_wakeup_sequence
    /\ h_att' = ObsTx(h_att, battery_wakeup_sequence)
    /\ wait_(WakeupDelay, "SEND_REQUEST")
    /\ UNCHANGED <<cfg, junk_left, rxline, scheduled_connection_start_timestamp_,
                   last_transmission_from_meter_timestamp_, current_obis_index_,
                   idv, baudv, mode_d_empty_frame_received, sensors_iterator_,
                   in_buf_, data_in_size_, uart_rx, readout_lrc_, lrc_,
                   setup_done>>

LoopSendRequest ==
    /\ InState("SEND_REQUEST")
    /\ in_buf_' = ReadChunks(in_buf_, uart_rx)
    /\ uart_rx' = <<>>
    /\ data_in_size_' = 0
    /\ out_buf_' = id_request
    /\ h_att' = ObsTx(h_att, id_request)
    /\ set_next_state_("GET_IDENTIFICATION")
    /\ UNCHANGED <<cfg, junk_left, rxline, scheduled_connection_start_timestamp_,
                   last_transmission_from_meter_timestamp_, current_obis_index_,
                   idv, baudv, mode_d_empty_frame_received, sensors_iterator_,
                   readout_lrc_, lrc_, setup_done>>


\* what a handler that only receives leaves alone
RxOnlyUnchanged ==
    UNCHANGED <<cfg, junk_left, rxline, scheduled_connection_start_timestamp_, current_obis_index_,
                baudv, mode_d_empty_frame_received, sensors_iterator_,
                setup_done>>

LoopGetIdentification ==
    /\ InState("GET_IDENTIFICATION")
    /\ \E k \in Budgets :
         \E r \in {receive_frame_(k)} :
         LET g == get_id_(r.buf, r.ret)
             id == parse_id_(g.buf, g.p, force_mode_d_)
         IN  /\ StoreRx(r, IF r.ret # 0 THEN g.buf ELSE r.buf)
             /\ lrc_' = r.lrc
             /\ last_transmission_from_meter_timestamp_' = r.ltx
             /\ IF r.ret # 0
                THEN /\ h_att' = IF g.found
                                 THEN ObsLine(h_att, r.buf, r.ret)
                                 ELSE ObsRx(h_att, r.buf, r.ret)
                     /\ IF g.found
                        THEN /\ mode_' = id.mode
                             /\ baud_rate_identification_' = id.baud
                             /\ set_next_state_("PREPARE_ACK")
                        ELSE /\ retry_or_sleep_
                             /\ UNCHANGED idv
                ELSE UNCHANGED <<sess, idv, h_att>>
    /\ RxOnlyUnchanged

\* a negotiation that ignores config_baud_rate_max_bps_
NegotiatedCharUnclamped == baud_rate_identification_

\* the baud rate character PREPARE_ACK answers with
NegotiatedChar ==
    IF config_baud_rate_max_bps_ # 0 /\ config_baud_rate_max_bps_ # MAX_BAUDRATE
    THEN LET adv == identification_to_baud_rate_(baud_rate_identification_)
             negotiated_bps ==
                 IF adv > config_baud_rate_max_bps_
                 THEN IF mode_ = "B" /\ config_baud_rate_max_bps_ < PROTO_B_MIN_BAUDRATE
                      THEN PROTO_B_MIN_BAUDRATE
                      ELSE config_baud_rate_max_bps_
                 ELSE adv
         IN  baud_rate_to_identification_(negotiated_bps, mode_)
    ELSE baud_rate_identification_

\* a frame with the character in its fourth byte
BaudFrameFourth(c) == [set_baud_and_programm EXCEPT ![3 + 1] = c]

\* the frame PREPARE_ACK writes for baud rate character c
BaudFrame(c) == [set_baud_and_programm EXCEPT ![2 + 1] = c]

LoopPrepareAck ==
    /\ InState("PREPARE_ACK")
    /\ IF mode_ = "A"
       THEN /\ set_next_state_("WAIT_FOR_STX")
            /\ UNCHANGED <<out_buf_, baud_rate_char, new_baudrate, h_att>>
       ELSE /\ baud_rate_char' = NegotiatedChar
            /\ out_buf_' = BaudFrame(NegotiatedChar)
            /\ h_att' = ObsTx(h_att, BaudFrame(NegotiatedChar))
            /\ new_baudrate' = identification_to_baud_rate_(NegotiatedChar)
            /\ wait_(SettleDelay, "SET_BAUD_RATE")
    /\ UNCHANGED <<cfg, junk_left, rxline, scheduled_connection_start_timestamp_,
                   last_transmission_from_meter_timestamp_, current_obis_index_,
                   idv, uart_baud, mode_d_empty_frame_received, sensors_iterator_,
                   in_buf_, data_in_size_, uart_rx, readout_lrc_, lrc_,
                   setup_done>>

LoopSetBaudRate ==
    /\ InState("SET_BAUD_RATE")
    /\ uart_baud' = new_baudrate
    /\ h_att' = ObsBaud(h_att, new_baudrate)
    /\ set_next_state_("WAIT_FOR_PPP")
    /\ UNCHANGED <<cfg, junk_left, rxline, scheduled_connection_start_timestamp_,
                   last_transmission_from_meter_timestamp_, current_obis_index_,
                   idv, baud_rate_char, new_baudrate, mode_d_empty_frame_received,
                   sensors_iterator_, rxv, setup_done>>

\* a waiting state that takes any frame for the expected one
ExpectAnyFrame(expected, next, strict) ==
    \E k \in Budgets :
      \E r \in {receive_frame_(k)} :
          /\ StoreRx(r, r.buf)
          /\ lrc_' = r.lrc
          /\ last_transmission_from_meter_timestamp_' = r.ltx
          /\ IF r.ret >= 1
             THEN /\ h_att' = ObsRx(h_att, r.buf, r.ret)
                  /\ set_next_state_(next)
             ELSE UNCHANGED <<sess, h_att>>
          /\ UNCHANGED idv
          /\ RxOnlyUnchanged

\* a state that waits for a frame with first byte `expected`: on it go to
\* `next`; on another frame retry when `strict`, else stay
Expect(expected, next, strict) ==
    \E k \in Budgets :
      \E r \in {receive_frame_(k)} :
          /\ StoreRx(r, r.buf)
          /\ lrc_' = r.lrc
          /\ last_transmission_from_meter_timestamp_' = r.ltx
          /\ IF r.ret >= 1
             THEN /\ h_att' = ObsRx(h_att, r.buf, r.ret)
                  /\ IF r.buf[0] = expected THEN set_next_state_(next)
                     ELSE IF strict THEN retry_or_sleep_
                     ELSE UNCHANGED sess
             ELSE UNCHANGED <<sess, h_att>>
          /\ UNCHANGED idv
          /\ RxOnlyUnchanged

LoopWaitForPpp ==
    InState("WAIT_FOR_PPP") /\ Expect(SOH, "WAIT_FOR_PPP_READ_DATA", TRUE)

LoopWaitForPppReadData ==
    InState("WAIT_FOR_PPP_READ_DATA") /\ Expect(LPAR, "SEND_PASSWORD", TRUE)

LoopWaitForAck ==
    InState("WAIT_FOR_ACK") /\ Expect(ACK, "ASK_FOR_ENERGY", FALSE)

LoopWaitForStx ==
    InState("WAIT_FOR_STX") /\ Expect(STX, "READOUT", TRUE)

\* a state that writes `frame` and goes to `next`
Send(frame, next) ==
    /\ out_buf_' = frame
    /\ h_att' = ObsTx(h_att, frame)
    /\ set_next_state_(next)
    /\ UNCHANGED <<cfg, junk_left, rxline, scheduled_connection_start_timestamp_,
                   last_transmission_from_meter_timestamp_, current_obis_index_,
                   idv, baudv, mode_d_empty_frame_received, sensors_iterator_,
                   in_buf_, data_in_size_, uart_rx, readout_lrc_, lrc_,
                   setup_done>>

LoopSendPassword ==
    InState("SEND_PASSWORD") /\ Send(set_password, "WAIT_FOR_ACK")

LoopAskForEnergy ==
    /\ InState("ASK_FOR_ENERGY")
    /\ Send(build_readout_command_(obis_codes_[current_obis_index_ + 1]),
            "WAIT_FOR_STX")


\* a READOUT that does not advance current_obis_index_
ReadoutEtxSameIndex(r) ==
    LET frame_size == r.ret
        buf == Terminate(r.buf, frame_size - 2)
        pl == parse_line_(CStr(buf, 0))
    IN  /\ StoreRx(r, buf)
        /\ lrc_' = update_lrc_(0, r.buf, frame_size - 1)
        /\ h_att' = IF pl.ok THEN ObsDeliver(ObsLine(h_att, r.buf, frame_size), pl)
                    ELSE ObsLine(h_att, r.buf, frame_size)
        /\ UNCHANGED <<current_obis_index_, sensors_iterator_>>
        /\ set_next_state_("ASK_FOR_ENERGY")

\* a READOUT that drops a frame whose checksum does not match and retries
ReadoutEtxStrict(r) ==
    LET frame_size == r.ret
        lrc == update_lrc_(0, r.buf, frame_size - 1)
        bcc_failed == lrc # r.rlrc
        buf == Terminate(r.buf, frame_size - 2)
        pl == parse_line_(CStr(buf, 0))
    IN  /\ StoreRx(r, buf)
        /\ lrc_' = lrc
        /\ IF bcc_failed
           THEN /\ h_att' = ObsLine(h_att, r.buf, frame_size)
                /\ retry_or_sleep_
                /\ UNCHANGED <<current_obis_index_, sensors_iterator_>>
           ELSE /\ h_att' = IF pl.ok
                            THEN ObsDeliver(ObsLine(h_att, r.buf, frame_size), pl)
                            ELSE ObsLine(h_att, r.buf, frame_size)
                /\ current_obis_index_' = current_obis_index_ + 1
                /\ IF current_obis_index_ + 1 < num_obis_codes_
                   THEN /\ set_next_state_("ASK_FOR_ENERGY")
                        /\ UNCHANGED sensors_iterator_
                   ELSE /\ set_next_state_("UPDATE_STATES")
                        /\ sensors_iterator_' = 0

\* READOUT got a frame of r.ret bytes whose second-to-last byte is ETX
ReadoutEtx(r) ==
    LET frame_size == r.ret
        lrc == update_lrc_(0, r.buf, frame_size - 1)
        bcc_failed == lrc # r.rlrc
        buf == Terminate(r.buf, frame_size - 2)
        pl == parse_line_(CStr(buf, 0))
    IN  /\ StoreRx(r, buf)
        /\ lrc_' = lrc
        /\ h_att' = IF pl.ok THEN ObsDeliver(ObsLine(h_att, r.buf, frame_size), pl)
                    ELSE ObsLine(h_att, r.buf, frame_size)
        /\ current_obis_index_' = current_obis_index_ + 1
        /\ IF current_obis_index_ + 1 < num_obis_codes_
           THEN /\ set_next_state_("ASK_FOR_ENERGY")
                /\ UNCHANGED sensors_iterator_
           ELSE /\ set_next_state_("UPDATE_STATES")
                /\ sensors_iterator_' = 0

\* a READOUT that gives the attempt up when a line does not parse
ReadoutLineRetry(r) ==
    LET frame_size == r.ret
        buf == Terminate(r.buf, frame_size - 2)
        pl == parse_line_(CStr(buf, 0))
    IN  /\ StoreRx(r, buf)
        /\ lrc_' = update_lrc_(r.lrc, r.buf, frame_size)
        /\ UNCHANGED <<current_obis_index_, sensors_iterator_>>
        /\ IF pl.ok
           THEN /\ h_att' = ObsDeliver(ObsLine(h_att, r.buf, frame_size), pl)
                /\ UNCHANGED sess
           ELSE /\ h_att' = ObsLine(h_att, r.buf, frame_size)
                /\ retry_or_sleep_

\* READOUT got any other frame
ReadoutLine(r) ==
    LET frame_size == r.ret
        buf == Terminate(r.buf, frame_size - 2)
        pl == parse_line_(CStr(buf, 0))
    IN  /\ StoreRx(r, buf)
        /\ lrc_' = update_lrc_(r.lrc, r.buf, frame_size)
        /\ h_att' = IF pl.ok THEN ObsDeliver(ObsLine(h_att, r.buf, frame_size), pl)
                    ELSE ObsLine(h_att, r.buf, frame_size)
        /\ UNCHANGED <<sess, current_obis_index_, sensors_iterator_>>

LoopReadout ==
    /\ InState("READOUT")
    /\ \E k \in Budgets :
         \E r \in {receive_frame_(k)} :
             /\ last_transmission_from_meter_timestamp_' = r.ltx
             /\ IF r.ret # 0
                THEN IF r.ret >= 2 /\ r.buf[r.ret - 2] = ETX
                     THEN ReadoutEtx(r)
                     ELSE ReadoutLine(r)
                ELSE /\ StoreRx(r, r.buf)
                     /\ lrc_' = r.lrc
                     /\ UNCHANGED <<sess, current_obis_index_, sensors_iterator_,
                                    h_att>>
    /\ UNCHANGED <<cfg, junk_left, rxline, scheduled_connection_start_timestamp_, idv, baudv,
                   mode_d_empty_frame_received, setup_done>>

LoopUpdateStates ==
    /\ InState("UPDATE_STATES")
    /\ IF sensors_iterator_ # NumSensors
       THEN /\ sensors_iterator_' = sensors_iterator_ + 1
            /\ UNCHANGED sess
       ELSE /\ wait_next_readout_
            /\ UNCHANGED sensors_iterator_
    /\ UNCHANGED <<cfg, junk_left, rxline, scheduled_connection_start_timestamp_,
                   last_transmission_from_meter_timestamp_, current_obis_index_,
                   idv, baudv, mode_d_empty_frame_received, rxv,
                   setup_done, h_att>>

LoopModeDWait ==
    /\ InState("MODE_D_WAIT")
    /\ \E k \in Budgets :
         \E r \in {receive_frame_(k)} :
         LET g == get_id_(r.buf, r.ret)
             id == parse_id_(g.buf, g.p, force_mode_d_)
         IN  /\ StoreRx(r, IF r.ret # 0 THEN g.buf ELSE r.buf)
             /\ lrc_' = r.lrc
             /\ IF r.ret # 0 /\ g.found
                THEN /\ mode_' = id.mode
                     /\ baud_rate_identification_' = id.baud
                     /\ state_' = "MODE_D_READOUT"
                     /\ h_cyc' = [h_cyc EXCEPT !.in_cycle = TRUE]
                     /\ UNCHANGED <<waitv, retry_counter_, scheduled_timestamp_set_>>
                     /\ last_transmission_from_meter_timestamp_' = millis
                     /\ mode_d_empty_frame_received' = FALSE
                     /\ h_att' = ObsLine(NoAttempt, r.buf, r.ret)
                ELSE /\ last_transmission_from_meter_timestamp_' = r.ltx
                     /\ h_att' = NoAttempt
                     /\ UNCHANGED <<sess, idv, mode_d_empty_frame_received>>
    /\ UNCHANGED <<cfg, junk_left, rxline, scheduled_connection_start_timestamp_, current_obis_index_,
                   baudv, sensors_iterator_, setup_done>>

\* MODE_D_READOUT got a frame that does not start with '!'
ModeDLine(r) ==
    LET frame_size == r.ret
        buf == Terminate(r.buf, frame_size - 2)
        pl == parse_line_(CStr(buf, 0))
    IN  /\ StoreRx(r, buf)
        /\ IF ~mode_d_empty_frame_received /\ buf[0] = NUL
           THEN /\ mode_d_empty_frame_received' = TRUE
                /\ h_att' = ObsLine(h_att, r.buf, frame_size)
           ELSE /\ UNCHANGED mode_d_empty_frame_received
                /\ h_att' = IF pl.ok
                            THEN ObsDeliver(ObsLine(h_att, r.buf, frame_size), pl)
                            ELSE ObsLine(h_att, r.buf, frame_size)
        /\ UNCHANGED <<sess, sensors_iterator_>>

LoopModeDReadout ==
    /\ InState("MODE_D_READOUT")
    /\ \E k \in Budgets :
         \E r \in {receive_frame_(k)} :
             /\ last_transmission_from_meter_timestamp_' = r.ltx
             /\ lrc_' = r.lrc
             /\ IF r.ret # 0
                THEN IF r.buf[0] = BANG
                     THEN /\ StoreRx(r, r.buf)
                          /\ set_next_state_("UPDATE_STATES")
                          /\ sensors_iterator_' = 0
                          /\ h_att' = ObsRx(h_att, r.buf, r.ret)
                          /\ UNCHANGED mode_d_empty_frame_received
                     ELSE ModeDLine(r)
                ELSE /\ StoreRx(r, r.buf)
                     /\ UNCHANGED <<sess, sensors_iterator_, h_att,
                                    mode_d_empty_frame_received>>
    /\ UNCHANGED <<cfg, junk_left, rxline, scheduled_connection_start_timestamp_, current_obis_index_,
                   idv, baudv, setup_done>>

\* one call of loop()
Loop ==
    \/ LoopTimeout
    \/ LoopInfiniteWait
    \/ LoopWait
    \/ LoopModeDWait
    \/ LoopModeDReadout
    \/ LoopBegin
    \/ LoopBatteryWakeup
    \/ LoopSendRequest
    \/ LoopGetIdentification
    \/ LoopPrepareAck
    \/ LoopSetBaudRate
    \/ LoopWaitForPpp
    \/ LoopWaitForPppReadData
    \/ LoopSendPassword
    \/ LoopWaitForAck
    \/ LoopAskForEnergy
    \/ LoopWaitForStx
    \/ LoopReadout
    \/ LoopUpdateStates

\* modes A, B, C with a meter that keeps to the protocol
Next ==
    \/ setup
    \/ ClockAdvance
    \/ MeterSend
    \/ trigger_readout
    \/ LoopTimeout
    \/ LoopInfiniteWait
    \/ LoopWait
    \/ LoopBegin
    \/ LoopBatteryWakeup
    \/ LoopSendRequest
    \/ LoopGetIdentification
    \/ LoopPrepareAck
    \/ LoopSetBaudRate
    \/ LoopWaitForPpp
    \/ LoopWaitForPppReadData
    \/ LoopSendPassword
    \/ LoopWaitForAck
    \/ LoopAskForEnergy
    \/ LoopWaitForStx
    \/ LoopReadout
    \/ LoopUpdateStates

Spec == Init /\ [][Next]_vars

\* modes A, B, C with a meter that sends frames out of turn and an echoing
\* line; time passes in the waits only
NextF ==
    \/ setup
    \/ WaitElapses
    \/ MeterSend
    \/ Echo
    \/ LoopWait
    \/ LoopBegin
    \/ LoopSendRequest
    \/ LoopGetIdentification
    \/ LoopPrepareAck
    \/ LoopSetBaudRate
    \/ LoopWaitForPpp
    \/ LoopWaitForPppReadData
    \/ LoopSendPassword
    \/ LoopWaitForAck
    \/ LoopAskForEnergy
    \/ LoopWaitForStx
    \/ LoopReadout
    \/ LoopUpdateStates

SpecF == InitF /\ [][NextF]_vars

\* forced mode D
NextD ==
    \/ setup
    \/ ClockAdvance
    \/ MeterSend
    \/ trigger_readout
    \/ LoopTimeout
    \/ LoopModeDWait
    \/ LoopModeDReadout
    \/ LoopUpdateStates

SpecD == InitD /\ [][NextD]_vars

\* -------------------------------------------------- the assembler by itself
\* the frames ending in CR LF that the engine transmits
TxFrames == {id_request} \cup {BaudFrame(c) : c \in {48, 53}}

\* the lines put on the wire: every sequence of at most MaxLineLen of these
\* bytes, a line that fills in_buf_ and one that does not fit
RxAlphabet == {49, CR, LF, ACK, STX, ETX}
LongLine(n) ==
    [i \in 1..n |-> IF i = n - 1 THEN CR ELSE IF i = n THEN LF ELSE 49]
RxLines ==
    UNION {[1..n -> RxAlphabet] : n \in 1..MaxLineLen}
        \cup {LongLine(MAX_IN_BUF_SIZE), LongLine(MAX_IN_BUF_SIZE + 1)}

InitRx ==
    /\ Construct(FALSE, FALSE, 0, NEVER, 0)
    /\ junk_left = 0
    /\ meter = PlainMeter

RxUnchanged ==
    UNCHANGED <<cfg, junk_left, meter, pure, sess, scheduled_connection_start_timestamp_,
                current_obis_index_, idv, baudv, mode_d_empty_frame_received,
                sensors_iterator_, setup_done, h_att>>

\* a frame was loaded into out_buf_ and written (send_frame_)
RxSend ==
    /\ h_rx.line = <<>>
    /\ out_buf_ = <<>>
    /\ \E f \in TxFrames : out_buf_' = f
    /\ UNCHANGED <<rx_pending, h_rx, in_buf_, data_in_size_, uart_rx,
                   readout_lrc_, lrc_, last_transmission_from_meter_timestamp_>>
    /\ RxUnchanged

\* a line is put on the wire: one of RxLines or the echo of out_buf_
RxLine ==
    /\ h_rx.line = <<>>
    /\ \E l \in (RxLines \cup {out_buf_}) \ {<<>>} :
         /\ rx_pending' = l
         /\ h_rx' = [NoLine EXCEPT !.line = l, !.echo = (l = out_buf_)]
    /\ UNCHANGED <<rxv, last_transmission_from_meter_timestamp_>>
    /\ RxUnchanged

\* some more bytes of the line reach the FIFO
RxFeed ==
    /\ \E n \in 1..Len(rx_pending) :
         /\ uart_rx' = uart_rx \o SubSeq(rx_pending, 1, n)
         /\ rx_pending' = SubSeq(rx_pending, n + 1, Len(rx_pending))
    /\ UNCHANGED <<h_rx, in_buf_, data_in_size_, out_buf_, readout_lrc_, lrc_,
                   last_transmission_from_meter_timestamp_>>
    /\ RxUnchanged

\* receive_frame_ is called; its 15 ms budget ends the loop after k iterations
RxPoll ==
    /\ h_rx.line # <<>>
    /\ \E k \in 0..(Len(uart_rx) + 1) :
         \E r \in {receive_frame_(k)} :
             /\ StoreRx(r, r.buf)
             /\ lrc_' = r.lrc
             /\ last_transmission_from_meter_timestamp_' = r.ltx
             /\ h_rx' = IF r.ret # 0
                        THEN [h_rx EXCEPT !.n = @ + 1, !.ret = r.ret,
                                          !.buf = [i \in 1..r.ret |-> r.buf[i - 1]],
                                          !.acc = <<>>]
                        ELSE [h_rx EXCEPT
                                !.split = @ \/ r.size > data_in_size_,
                                !.acc = IF r.size = 0 THEN <<>>
                                        ELSE Window(@ \o SubSeq(uart_rx, 1,
                                                 Len(uart_rx) - Len(r.rx)))]
    /\ UNCHANGED rx_pending
    /\ RxUnchanged

NextRx ==
    \/ RxSend
    \/ RxLine
    \/ RxFeed
    \/ RxPoll

SpecRx == InitRx /\ [][NextRx]_vars

\* ------------------------------------------- meters of every identification
\* "/XYZ" z "\r\n": the identification of a meter that advertises character z
F_Id(z) == <<SLASH, 88, 89, 90, z, CR, LF>>
F_IdShort == <<SLASH, 65, 66, 67, CR, LF>>             \* "/ABC\r\n"
F_IdLate == <<88, SLASH, 65, 66, 67, CR, LF>>          \* "X/ABC\r\n"
F_IdNul == <<SLASH, 65, 66, NUL, 53, CR, LF>>          \* "/AB" NUL "5\r\n"
F_IdNoSlash == <<88, 88, 88, 88, 53, CR, LF>>          \* "XXXX5\r\n"
F_IdPrefixed == <<88, SLASH, 88, 89, 90, 53, CR, LF>>  \* "X/XYZ5\r\n"
\* "/XYZ5\r\n" as the last bytes of a frame that fills in_buf_
F_IdFull ==
    [i \in 1..MAX_IN_BUF_SIZE |->
        IF i <= MAX_IN_BUF_SIZE - 7 THEN 88 ELSE F_Id(53)[i - (MAX_IN_BUF_SIZE - 7)]]

\* the characters the meters advertise: those of both ranges, the next one
\* after each range and 'z'
AdvertisedChars ==
    (PROTO_B_RANGE_BEGIN..(PROTO_B_RANGE_END + 1))
        \cup (PROTO_C_RANGE_BEGIN..(PROTO_C_RANGE_END + 1)) \cup {122}

IdFrames ==
    {F_Id(z) : z \in AdvertisedChars}
        \cup {F_IdShort, F_IdLate, F_IdNul, F_IdNoSlash, F_IdPrefixed, F_IdFull}

\* the values of config_baud_rate_max_bps_: 0 (no limit) or a rate of the table
BaudRateCaps == {0} \cup {BAUDRATES[i] : i \in 1..Len(BAUDRATES)}

\* modes A, B, C with a meter of any identification and any baud rate limit
InitN ==
    /\ \E cap \in BaudRateCaps : Construct(FALSE, FALSE, 1, UpdateInterval, cap)
    /\ junk_left = 0
    /\ \E f \in IdFrames : meter = [PlainMeter EXCEPT !.id = f]

NextN ==
    \/ setup
    \/ WaitElapses
    \/ MeterSend
    \/ LoopWait
    \/ LoopBegin
    \/ LoopSendRequest
    \/ LoopGetIdentification
    \/ LoopPrepareAck
    \/ LoopSetBaudRate
    \/ LoopWaitForPpp
    \/ LoopWaitForPppReadData
    \/ LoopSendPassword
    \/ LoopWaitForAck
    \/ LoopAskForEnergy
    \/ LoopWaitForStx
    \/ LoopReadout
    \/ LoopUpdateStates

SpecN == InitN /\ [][NextN]_vars

\* ------------------------------------------------- meters of every data line
F_DataBadObis == <<97, LPAR, 50, RPAR, ETX, 81>>   \* "a(2)" ETX BCC
F_DataRev == <<RPAR, 49, LPAR, ETX, 51>>           \* ")1(" ETX BCC
F_DataAckBcc == <<54, LPAR, 50, RPAR, ETX, ACK>>   \* "6(2)" ETX BCC, BCC = 06
F_DataStxBcc == <<50, LPAR, 50, RPAR, ETX, STX>>   \* "2(2)" ETX BCC, BCC = 02
F_LineBadObis == <<97, LPAR, 50, RPAR, CR, LF>>    \* "a(2)\r\n"
F_LineRev == <<RPAR, 49, LPAR, CR, LF>>            \* ")1(\r\n"

\* a meter that sends lines and ETX-terminated frames of every kind
TalkativeMeter ==
    [id |-> F_IdC,
     readout |-> {F_Data, F_DataBadLine, F_DataBadObis, F_DataRev, F_DataAckBcc,
                  F_DataStxBcc, F_Line, F_LineBad, F_LineBadObis, F_LineRev},
     lines |-> {F_Line, F_LineBad, F_LineBadObis, F_LineRev, F_Empty, F_End}]

\* every protocol mode, forced mode D or not, with that meter
InitS ==
    /\ \E force \in BOOLEAN : Construct(force, FALSE, 1, UpdateInterval, 0)
    /\ junk_left = 0
    /\ meter = TalkativeMeter

NextS ==
    \/ setup
    \/ WaitElapses
    \/ MeterSend
    \/ LoopWait
    \/ LoopModeDWait
    \/ LoopModeDReadout
    \/ LoopBegin
    \/ LoopSendRequest
    \/ LoopGetIdentification
    \/ LoopPrepareAck
    \/ LoopSetBaudRate
    \/ LoopWaitForPpp
    \/ LoopWaitForPppReadData
    \/ LoopSendPassword
    \/ LoopWaitForAck
    \/ LoopAskForEnergy
    \/ LoopWaitForStx
    \/ LoopReadout
    \/ LoopUpdateStates

SpecS == InitS /\ [][NextS]_vars

\* --------------------------------------------- a meter that never falls silent
\* a meter that answers a request with a data frame or with empty lines, as
\* many as it likes
ChattyMeter == [PlainMeter EXCEPT !.readout = {F_Data, F_Empty}]

InitL ==
    /\ Construct(FALSE, FALSE, 1, UpdateInterval, 0)
    /\ junk_left = 0
    /\ meter = ChattyMeter

\* the calls of loop() in a mode B/C session with periodic readout
LoopL ==
    \/ LoopTimeout
    \/ LoopWait
    \/ LoopBegin
    \/ LoopSendRequest
    \/ LoopGetIdentification
    \/ LoopPrepareAck
    \/ LoopSetBaudRate
    \/ LoopWaitForPpp
    \/ LoopWaitForPppReadData
    \/ LoopSendPassword
    \/ LoopWaitForAck
    \/ LoopAskForEnergy
    \/ LoopWaitForStx
    \/ LoopReadout
    \/ LoopUpdateStates

NextL ==
    \/ setup
    \/ ClockAdvance
    \/ MeterSend
    \/ LoopL

\* setup() is called, loop() keeps being called and the clock keeps advancing
SpecL ==
    /\ InitL
    /\ [][NextL]_vars
    /\ WF_vars(setup)
    /\ WF_vars(LoopL)
    /\ WF_vars(ClockAdvance)

\* ------------------------------------- the parsers and tables by themselves
\* the characters a meter can advertise (char, 7 bits)
IdChars == 0..127
\* baud rates handed to baud_rate_to_identification_: those of the table and
\* others between and beyond them
SomeRates == {0, 1, 299, 300, 301, 600, 1000, 1200, 2400, 4800, 9600, 14400,
              19200, 19201, 38400}
\* the data lines handed to parse_line_: every text of at most MaxParseLen of
\* these characters ('1', '(', ')', 'a')
ParseAlphabet == {49, LPAR, RPAR, 97}
ParseLines == UNION {[1..n -> ParseAlphabet] : n \in 0..MaxParseLen}

InitP ==
    /\ Construct(FALSE, FALSE, 0, NEVER, 0)
    /\ junk_left = 0
    /\ meter = PlainMeter

PureUnchanged ==
    UNCHANGED <<cfg, junk_left, rx_pending, h_rx, meter, sess,
                scheduled_connection_start_timestamp_,
                last_transmission_from_meter_timestamp_, current_obis_index_,
                idv, baudv, mode_d_empty_frame_received, sensors_iterator_, rxv,
                setup_done, h_att>>

\* identification_to_baud_rate_(z), and baud_rate_to_identification_ of its
\* result in the mode set_protocol_ finds for z
PureIdToRate ==
    /\ pure = NoCall
    /\ \E z \in IdChars :
         LET mode == set_protocol_(z, FALSE)
             rate == identification_to_baud_rate_(z)
         IN  pure' = [fn |-> "identification_to_baud_rate_", z |-> z,
                      mode |-> mode, rate |-> rate,
                      back |-> baud_rate_to_identification_(rate, mode)]
    /\ PureUnchanged

\* baud_rate_to_identification_(rate) with mode_ = mode
PureRateToId ==
    /\ pure = NoCall
    /\ \E rate \in SomeRates, mode \in {"B", "C"} :
         pure' = [fn |-> "baud_rate_to_identification_", rate |-> rate,
                  mode |-> mode,
                  z |-> baud_rate_to_identification_(rate, mode)]
    /\ PureUnchanged

\* parse_line_(line, obis, value1, value2)
PureParseLine ==
    /\ pure = NoCall
    /\ \E line \in ParseLines :
         pure' = [fn |-> "parse_line_", line |-> line, out |-> parse_line_(line)]
    /\ PureUnchanged

NextP ==
    \/ PureIdToRate
    \/ PureRateToId
    \/ PureParseLine

SpecP == InitP /\ [][NextP]_vars

\* ------------------------------------------------------------------ claims
Wire == h_att.wire
Kinds == [i \in 1..Len(Wire) |-> Wire[i][1]]
IsReq(ev) == ev[1] = "REQ"
Reqs == SelectSeq(Wire, IsReq)
HasPwd == \E i \in 1..Len(Wire) : Wire[i][1] = "PWD"
\* the next scheduled wait is armed
Armed ==
    IF is_periodic_readout_enabled_
    THEN state_ = "WAIT" /\ wait_next_state_ = "BEGIN"
    ELSE state_ = "INFINITE_WAIT"

\* C1: when the retry policy gave a cycle up that no trigger interfered with,
\* state_ was set to BEGIN max_retries_ + 1 times in that cycle, the retry
\* counter is 0 and the next scheduled wait (or INFINITE_WAIT) is armed
C1_RetryExhaustion ==
    (~force_mode_d_ /\ h_cyc.over = "exhausted" /\ ~h_cyc.preempted)
        => /\ h_cyc.begins = max_retries_ + 1
           /\ retry_counter_ = 0
           /\ Armed

C1_Witness ==
    /\ ~force_mode_d_
    /\ max_retries_ = MaxRetriesCfg
    /\ h_cyc.over = "exhausted"
    /\ ~h_cyc.preempted
    /\ h_cyc.begins = MaxRetriesCfg + 1

\* what retry_or_sleep_ leaves behind
RetryPolicyStep ==
    IF force_mode_d_ THEN state_' = "MODE_D_WAIT"
    ELSE IF retry_counter_ >= max_retries_
    THEN retry_counter_' = 0 /\ h_cyc'.over = "exhausted" /\ Armed'
    ELSE /\ retry_counter_' = retry_counter_ + 1
         /\ state_' = "WAIT"
         /\ wait_next_state_' = "BEGIN"
         /\ wait_period_ms_' = retry_delay_

\* C2: a call of loop() in a state other than WAIT and INFINITE_WAIT, at
\* least connection_timeout_ms_ after the last transmission from the meter,
\* invokes the retry policy and reads, writes and delivers nothing
C2_TimeoutGuard ==
    [][(/\ setup_done
        /\ state_ # "WAIT"
        /\ state_ # "INFINITE_WAIT"
        /\ Sub(millis, last_transmission_from_meter_timestamp_)
              >= connection_timeout_ms_
        /\ Loop)
          => /\ RetryPolicyStep
             /\ UNCHANGED <<rxv, uart_baud, current_obis_index_, sensors_iterator_>>
             /\ h_att'.wire = h_att.wire
             /\ h_att'.sink = h_att.sink
             /\ h_att'.last = h_att.last]_vars

C2_Witness ==
    /\ h_att.aborted = "READOUT"
    /\ state_ = "WAIT"
    /\ wait_next_state_ = "BEGIN"
    /\ retry_counter_ = 1

\* C3: trigger_readout() called between the BEGIN handler of a cycle and the
\* end of that attempt leaves the session state as it is
C3_NoPreemption ==
    [][(trigger_readout /\ h_cyc.in_cycle)
          => UNCHANGED <<state_, waitv, retry_counter_>>]_vars

\* the transmissions of a mode B/C attempt: baud rate set to 300,
\* identification request, baud-switch frame, baud rate set to the rate of its
\* character, password, requests
HandshakeOrder ==
    /\ \A i \in 1..Len(Wire) :
         Kinds[i] = IF i > 5 THEN "REQ"
                    ELSE <<"SETBAUD", "ID", "BAUD", "SETBAUD", "PWD">>[i]
    /\ Len(Wire) >= 4 => Wire[4][2][1] = identification_to_baud_rate_(Wire[3][2][3])

\* C4: in a mode B/C attempt the engine transmits in the order identification
\* request, baud-switch frame, password, requests; it writes the password only
\* after the baud-switch frame, the baud rate change and then a frame starting
\* with SOH followed by one starting with '('; it writes the first request only
\* after a frame starting with ACK came in reply to the password
C4_HandshakeOrder ==
    /\ []((mode_ # "A" \/ Len(Wire) <= 2) => HandshakeOrder)
    /\ [][h_att'.wire = Append(Wire, <<"PWD", <<>> >>) => h_att.ppp = 2]_vars
    /\ [][(/\ Len(Wire) > 0
           /\ Wire[Len(Wire)][1] = "PWD"
           /\ Len(h_att'.wire) = Len(Wire) + 1)
             => /\ h_att'.wire[Len(Wire) + 1] = <<"REQ", <<0>> >>
                /\ h_att.last = ACK]_vars

C4_Witness ==
    /\ mode_ = "C"
    /\ state_ = "WAIT_FOR_STX"
    /\ Kinds = <<"SETBAUD", "ID", "BAUD", "SETBAUD", "PWD", "REQ">>

\* C5: after the password the engine requests the entries of obis_codes_ one
\* by one from index 0; it writes a further request only after a frame
\* starting with STX and then an ETX-terminated frame were received; in
\* UPDATE_STATES every entry was requested once and nothing more is written
C5_ObisWalk ==
    /\ [](HasPwd =>
            /\ Len(Reqs) <= num_obis_codes_
            /\ \A i \in 1..Len(Reqs) : Reqs[i][2] = <<i - 1>>
            /\ state_ = "UPDATE_STATES" => Len(Reqs) = num_obis_codes_)
    /\ [][(/\ HasPwd
           /\ Len(Reqs) >= 1
           /\ Len(h_att'.wire) = Len(Wire) + 1) => h_att.resp = 2]_vars
    /\ [][state_ = "UPDATE_STATES" => h_att'.wire = Wire]_vars

C5_Witness ==
    /\ state_ = "UPDATE_STATES"
    /\ retry_counter_ = 0
    /\ HasPwd
    /\ Len(Reqs) = num_obis_codes_
    /\ num_obis_codes_ >= 2

\* C6: READOUT handles an ETX-terminated frame by its payload alone, whatever
\* the checksum byte: the value of a well-formed payload is delivered,
\* current_obis_index_ advances, the next state is ASK_FOR_ENERGY or
\* UPDATE_STATES and the retry policy is not invoked
C6_ChecksumNonFatal ==
    [][(/\ state_ = "READOUT"
        /\ data_in_size_ = 0
        /\ Len(uart_rx) >= 2
        /\ Len(uart_rx) <= MAX_IN_BUF_SIZE
        /\ uart_rx[Len(uart_rx) - 1] = ETX
        /\ uart_rx' = <<>>
        /\ Loop)
          => LET pl == parse_line_(SubSeq(uart_rx, 1, Len(uart_rx) - 2))
             IN  /\ h_att'.sink =
                       IF pl.ok
                       THEN [n |-> 1 - h_att.sink.n,
                             last |-> <<pl.obis, pl.value1, pl.value2>>]
                       ELSE h_att.sink
                 /\ current_obis_index_' = current_obis_index_ + 1
                 /\ state_' = IF current_obis_index_ + 1 < num_obis_codes_
                              THEN "ASK_FOR_ENERGY" ELSE "UPDATE_STATES"
                 /\ UNCHANGED retry_counter_]_vars

C6_Witness ==
    /\ state_ = "ASK_FOR_ENERGY"
    /\ current_obis_index_ = 1
    /\ h_att.resp = 2
    /\ h_att.sink.n = 1
    /\ lrc_ # readout_lrc_

\* C7: when the bytes of the frame last transmitted come back, no call of
\* receive_frame_ returns a frame
C7_EchoSuppressed == h_rx.echo => h_rx.n = 0

\* the lines C8 is about
Reassembled(l) ==
    /\ Len(l) >= 2
    /\ Len(l) <= MAX_IN_BUF_SIZE
    /\ \A i \in 1..Len(l) : l[i] \notin {ACK, STX, ETX}
    /\ \A i \in 1..(Len(l) - 1) : (l[i] = CR /\ l[i + 1] = LF) <=> i = Len(l) - 1

\* C8: for a line that fits in_buf_, has no ACK, STX or ETX, has its only
\* CR LF at its end and is not the echo of out_buf_, however its bytes are
\* split over the calls of receive_frame_, at most one call returns a frame,
\* the frame is the whole line, and a call has returned it once every byte
\* was read
C8_Reassembly ==
    (Reassembled(h_rx.line) /\ ~h_rx.echo)
        => /\ h_rx.n <= 1
           /\ h_rx.n = 1 => h_rx.ret = Len(h_rx.line) /\ h_rx.buf = h_rx.line
           /\ (rx_pending = <<>> /\ uart_rx = <<>>) => h_rx.n = 1

C8_Witness ==
    /\ h_rx.line = LongLine(MAX_IN_BUF_SIZE)
    /\ ~h_rx.echo
    /\ h_rx.split
    /\ h_rx.n = 1
    /\ rx_pending = <<>>
    /\ uart_rx = <<>>

C10_RetryCounter ==
    /\ [](retry_counter_ <= max_retries_)
    /\ [][retry_counter_' > retry_counter_
             => /\ Loop
                /\ retry_counter_ < max_retries_
                /\ retry_counter_' = retry_counter_ + 1
                /\ state_' = "WAIT"
                /\ wait_next_state_' = "BEGIN"
                /\ wait_period_ms_' = retry_delay_]_vars
    /\ [][retry_counter_' < retry_counter_
             => /\ retry_counter_' = 0
                /\ h_cyc.over = "no"
                /\ h_cyc'.over # "no"
                /\ Armed']_vars

C10_Witness ==
    /\ max_retries_ = MaxRetriesCfg
    /\ retry_counter_ = max_retries_
    /\ state_ = "WAIT"
    /\ wait_next_state_ = "BEGIN"
    /\ wait_period_ms_ = retry_delay_


\* the rate the standard gives a baud rate character: 300 bit/s doubled per
\* step from '0' in mode C, 600 bit/s doubled per step from 'A' in mode B
RECURSIVE Doubled(_, _)
Doubled(rate, n) == IF n = 0 THEN rate ELSE Doubled(2 * rate, n - 1)
CharRate(z) ==
    IF z >= PROTO_B_RANGE_BEGIN /\ z <= PROTO_B_RANGE_END
    THEN Doubled(600, z - PROTO_B_RANGE_BEGIN)
    ELSE IF z >= PROTO_C_RANGE_BEGIN /\ z <= PROTO_C_RANGE_END
    THEN Doubled(300, z - PROTO_C_RANGE_BEGIN)
    ELSE 0

\* C12: on every character of the mode B range in mode B and of the mode C
\* range in mode C, baud_rate_to_identification_ gives back the character
\* identification_to_baud_rate_ was applied to; a character outside both
\* ranges has rate 0; a rate that is not in the table has the lowest character
\* of the mode
C12_BaudTablesInverse ==
    /\ pure.fn = "identification_to_baud_rate_"
         => /\ pure.rate = CharRate(pure.z)
            /\ pure.mode \in {"B", "C"} => pure.back = pure.z
            /\ pure.mode = "A" => pure.rate = 0
    /\ (/\ pure.fn = "baud_rate_to_identification_"
        /\ \A i \in 1..Len(BAUDRATES) : BAUDRATES[i] # pure.rate)
         => pure.z = IF pure.mode = "B" THEN PROTO_B_RANGE_BEGIN
                     ELSE PROTO_C_RANGE_BEGIN

C12_Witness ==
    /\ pure.fn = "identification_to_baud_rate_"
    /\ pure.z = PROTO_B_RANGE_END
    /\ pure.mode = "B"
    /\ pure.rate = MAX_BAUDRATE
    /\ pure.back = pure.z

\* the first position from `from` on where line has ch; 0 when there is none
FirstAt(line, ch, from) ==
    IF \E i \in from..Len(line) : line[i] = ch
    THEN CHOOSE i \in from..Len(line) :
           line[i] = ch /\ \A j \in from..(i - 1) : line[j] # ch
    ELSE 0

\* the reading of a data line C18 states
ParseReference(line) ==
    LET o1 == FirstAt(line, LPAR, 1)
        c1 == FirstAt(line, RPAR, 1)
    IN  IF o1 = 0 \/ c1 = 0 \/ c1 < o1
        THEN [ok |-> FALSE, obis |-> <<>>, value1 |-> <<>>, value2 |-> <<>>]
        ELSE LET o2 == FirstAt(line, LPAR, c1 + 1)
                 c2 == FirstAt(line, RPAR, c1 + 1)
             IN  [ok |-> validate_obis_(SubSeq(line, 1, o1 - 1)),
                  obis |-> SubSeq(line, 1, o1 - 1),
                  value1 |-> SubSeq(line, o1 + 1, c1 - 1),
                  value2 |-> IF o2 # 0 /\ c2 > o2
                             THEN SubSeq(line, o2 + 1, c2 - 1) ELSE <<>>]

\* C18: parse_line_ accepts a line exactly when it has a '(' and a ')', the
\* first ')' after the first '(', and a valid OBIS text before the first '(';
\* then obis is that text, value1 the text between the first '(' and the first
\* ')', and value2 the content of a second bracket pair that opens after the
\* first ')' (empty without one)
C18_ParseLineReference ==
    pure.fn = "parse_line_"
        => LET ref == ParseReference(pure.line)
           IN  /\ pure.out.ok = ref.ok
               /\ ref.ok => pure.out = ref


\* C20: a call of receive_frame_ that appends an ACK returns a frame of one
\* byte, that ACK in in_buf_[0], whatever was accumulated before, and leaves
\* the accumulator empty
C20_AckTerminator ==
    [][(h_rx'.n = h_rx.n + 1 /\ h_rx'.buf[h_rx'.ret] = ACK)
          => /\ h_rx'.ret = 1
             /\ in_buf_'[0] = ACK
             /\ data_in_size_' = 0]_vars


\* GET_IDENTIFICATION reads the frame in the FIFO whole, with nothing
\* accumulated before it
ReadsIdFrame ==
    /\ state_ = "GET_IDENTIFICATION"
    /\ data_in_size_ = 0
    /\ Len(uart_rx) >= 2
    /\ Len(uart_rx) <= MAX_IN_BUF_SIZE
    /\ uart_rx[Len(uart_rx) - 1] = CR
    /\ uart_rx[Len(uart_rx)] = LF
    /\ uart_rx' = <<>>

\* the position of the last '/' of a frame, 0 without one
LastSlash(frame) ==
    IF \E i \in 1..Len(frame) : frame[i] = SLASH
    THEN CHOOSE i \in 1..Len(frame) :
           frame[i] = SLASH /\ \A j \in (i + 1)..Len(frame) : frame[j] # SLASH
    ELSE 0

RECURSIVE TextLen(_, _)
\* the length of the text of a frame from position i to its CR LF or to a NUL
TextLen(frame, i) ==
    IF i > Len(frame) - 2 \/ frame[i] = NUL THEN 0 ELSE 1 + TextLen(frame, i + 1)

\* the frame has a '/' and fewer than 5 characters of identification text
ShortIdText(frame) ==
    LastSlash(frame) # 0 /\ TextLen(frame, LastSlash(frame)) < 5

ProceedsAsModeA ==
    /\ baud_rate_identification_' = 0
    /\ mode_' = "A"
    /\ state_' = "PREPARE_ACK"
    /\ UNCHANGED retry_counter_

\* in mode A PREPARE_ACK goes on to WAIT_FOR_STX and writes nothing
ModeASkipsBaudSwitch ==
    /\ [](state_ = "PREPARE_ACK" /\ baud_rate_identification_ = 0 => mode_ = "A")
    /\ [][(state_ = "PREPARE_ACK" /\ mode_ = "A" /\ Loop)
            => /\ state_' = "WAIT_FOR_STX"
               /\ h_att'.wire = Wire
               /\ UNCHANGED <<out_buf_, uart_baud, retry_counter_>>]_vars

NoIdentification(frame) ==
    LastSlash(frame) = 0 \/ Len(frame) - LastSlash(frame) + 1 < 7

\* C14: GET_IDENTIFICATION invokes the retry policy, leaving mode and baud
\* character alone, exactly on the frames that have no '/' or fewer than 7
\* bytes from their last '/' through CR LF; on the others it goes on to
\* PREPARE_ACK
C14_MalformedIdentification ==
    [][(ReadsIdFrame /\ Loop)
          => IF NoIdentification(uart_rx)
             THEN RetryPolicyStep /\ UNCHANGED idv
             ELSE state_' = "PREPARE_ACK" /\ UNCHANGED retry_counter_]_vars

\* C17 as stated: the frame PREPARE_ACK writes is ACK '0' '0' baud_rate_char
\* CR LF
C17_BaudSwitchFrame ==
    [][(state_ = "PREPARE_ACK" /\ mode_ # "A" /\ Loop)
          => out_buf_' = <<ACK, 48, 48, baud_rate_char', CR, LF>>]_vars

\* C17 amended: the frame PREPARE_ACK writes is ACK '0' baud_rate_char '1'
\* CR LF, the negotiated character in the third byte, and the rate applied
\* after the settle delay is the rate of that character
C17_BaudSwitchFrameAmended ==
    [][(state_ = "PREPARE_ACK" /\ mode_ # "A" /\ Loop)
          => /\ out_buf_' = <<ACK, 48, baud_rate_char', 49, CR, LF>>
             /\ h_att'.wire = Append(Wire, <<"BAUD", out_buf_'>>)
             /\ new_baudrate' = CharRate(baud_rate_char')
             /\ wait_next_state_' = "SET_BAUD_RATE"]_vars

C17_Witness ==
    /\ state_ = "WAIT"
    /\ wait_next_state_ = "SET_BAUD_RATE"
    /\ baud_rate_char = PROTO_B_RANGE_END
    /\ out_buf_ = <<ACK, 48, PROTO_B_RANGE_END, 49, CR, LF>>


\* the first byte the state waits for
ExpectedByte ==
    CASE state_ = "WAIT_FOR_PPP" -> SOH
      [] state_ = "WAIT_FOR_PPP_READ_DATA" -> LPAR
      [] state_ = "WAIT_FOR_ACK" -> ACK
      [] state_ = "WAIT_FOR_STX" -> STX
      [] OTHER -> -1

\* the handler reads the frame in the FIFO whole, with nothing accumulated
\* before it, and the frame is not the echo of out_buf_
ReadsWholeFrame ==
    /\ data_in_size_ = 0
    /\ Len(uart_rx) >= 1
    /\ Len(uart_rx) <= MAX_IN_BUF_SIZE
    /\ uart_rx # out_buf_
    /\ uart_rx' = <<>>
    /\ data_in_size_' = 0

\* C15: in WAIT_FOR_PPP, WAIT_FOR_PPP_READ_DATA, WAIT_FOR_ACK and WAIT_FOR_STX
\* a completed frame whose first byte is not the expected one invokes the
\* retry policy in that call of loop()
C15_UnexpectedByteRetry ==
    [][(/\ ExpectedByte # -1
        /\ ReadsWholeFrame
        /\ uart_rx[1] # ExpectedByte
        /\ Loop) => RetryPolicyStep]_vars


\* the text of the frame in the FIFO: its bytes up to the last two, or up to
\* a NUL
FrameText == SubSeq(uart_rx, 1, TextLen(uart_rx, 1))

\* the handler takes the frame in the FIFO for a data line
ReadsDataLine ==
    /\ ReadsWholeFrame
    /\ Len(uart_rx) >= 2
    /\ \/ state_ = "READOUT"
       \/ /\ state_ = "MODE_D_READOUT"
          /\ uart_rx[1] # BANG
          /\ mode_d_empty_frame_received \/ FrameText # <<>>

\* C16: a data line READOUT or MODE_D_READOUT cannot parse (no '(' or no ')',
\* ')' before '(', invalid OBIS text) delivers nothing, leaves retry_counter_
\* and the cycle as they are and does not invoke the retry policy; READOUT on
\* an ETX-terminated frame still advances current_obis_index_ and goes on,
\* every other such line leaves the state as it is
C16_MalformedLineDropped ==
    [][(/\ ReadsDataLine
        /\ ~ParseReference(FrameText).ok
        /\ Loop)
          => /\ h_att'.sink = h_att.sink
             /\ UNCHANGED <<retry_counter_, waitv, h_cyc>>
             /\ IF state_ = "READOUT" /\ uart_rx[Len(uart_rx) - 1] = ETX
                THEN /\ current_obis_index_' = current_obis_index_ + 1
                     /\ state_' = IF current_obis_index_ + 1 < num_obis_codes_
                                  THEN "ASK_FOR_ENERGY" ELSE "UPDATE_STATES"
                ELSE UNCHANGED <<state_, current_obis_index_>>]_vars

C16_Witness ==
    /\ state_ = "READOUT"
    /\ h_att.last = 97
    /\ in_buf_[3] = RPAR
    /\ in_buf_[4] = NUL
    /\ h_att.sink.n = 0
    /\ retry_counter_ = 0

\* C19: the checksum READOUT compares with the XOR it computes over an
\* ETX-terminated frame is the last byte of that frame, whatever its value; a
\* frame whose last byte is the XOR of the bytes before it is found valid
C19_ChecksumCapture ==
    [][(/\ state_ = "READOUT"
        /\ ReadsWholeFrame
        /\ Len(uart_rx) >= 2
        /\ uart_rx[Len(uart_rx) - 1] = ETX
        /\ Loop)
          => /\ readout_lrc_' = uart_rx[Len(uart_rx)]
             /\ uart_rx[Len(uart_rx)] = XorSeq(SubSeq(uart_rx, 1, Len(uart_rx) - 1))
                  => lrc_' = readout_lrc_']_vars

\* C21: data_in_size_ never exceeds MAX_IN_BUF_SIZE, and in_buf_ holds, in
\* order, the bytes read since the last frame was completed, the most recent
\* MAX_IN_BUF_SIZE of them once more were read, also after a call that found
\* the FIFO empty with in_buf_ full
C21_AccumulatorWindow ==
    /\ data_in_size_ <= MAX_IN_BUF_SIZE
    /\ data_in_size_ = Len(h_rx.acc)
    /\ \A i \in 1..Len(h_rx.acc) : in_buf_[i - 1] = h_rx.acc[i]

\* C22: whenever loop() writes the identification request it is in
\* SEND_REQUEST, the UART's baud rate is 300 and current_obis_index_ is 0, and
\* the step changes neither: on the first attempt, on a retry after the baud
\* rate was switched and after the battery wakeup
C22_CleanStart ==
    /\ [][(/\ Len(h_att'.wire) = Len(Wire) + 1
           /\ h_att'.wire[Len(Wire) + 1][1] = "ID")
            => /\ state_ = "SEND_REQUEST"
               /\ out_buf_' = id_request
               /\ uart_baud = 300
               /\ current_obis_index_ = 0
               /\ UNCHANGED <<uart_baud, current_obis_index_>>]_vars
    /\ [][(state_ = "SEND_REQUEST" /\ Loop /\ ~TimeoutGuard)
            => h_att'.wire = Append(Wire, <<"ID", <<>> >>)]_vars

\* the identification request of a retry, after an attempt that switched to
\* 9600 bit/s and read a data frame
C22_Witness ==
    /\ state_ = "GET_IDENTIFICATION"
    /\ retry_counter_ >= 1
    /\ Kinds = <<"SETBAUD", "ID">>
    /\ out_buf_ = id_request
    /\ new_baudrate = 9600
    /\ current_obis_index_ = 0
    /\ uart_baud = 300
    /\ lrc_ # 0

\* C23: from the step of PREPARE_ACK that writes the baud-switch frame until
\* SettleDelay of clock time has passed, no call of loop() and no
\* trigger_readout() sets the UART's baud rate, writes a frame or reads from
\* the UART
C23_SettleDelay ==
    [][(/\ Wire # <<>>
        /\ Wire[Len(Wire)][1] = "BAUD"
        /\ Sub(millis, wait_start_timestamp_) < SettleDelay
        /\ (Loop \/ trigger_readout))
          => /\ h_att'.wire = Wire
             /\ UNCHANGED <<uart_baud, rxv>>]_vars

\* C24: a request frame SOH R 1 STX <obis> ( ) ETX BCC is written only in a
\* session identified as mode B or C, never in mode A or with mode D forced,
\* and in a mode A session current_obis_index_ is left alone
C24_RequestsOnlyInBC ==
    /\ [][(/\ Len(h_att'.wire) = Len(Wire) + 1
           /\ h_att'.wire[Len(Wire) + 1][1] = "REQ")
            => ~force_mode_d_ /\ mode_ \in {"B", "C"}]_vars
    /\ [][(/\ mode_ = "A"
           /\ state_ \in {"PREPARE_ACK", "WAIT_FOR_STX", "READOUT"})
            => UNCHANGED current_obis_index_]_vars

\* C25: every in_buf_[frame_size - 2] = 0 a handler executes, for every frame
\* size receive_frame_ returns to it, the one-byte frames of the ACK and STX
\* rules included, writes inside in_buf_
C25_IndexSafety == h_att.nul \in 0..(MAX_IN_BUF_SIZE - 1)

\* C27: current_obis_index_ never exceeds num_obis_codes_; it is below
\* num_obis_codes_ whenever the machine is in ASK_FOR_ENERGY, after any
\* sequence of readouts, retries, timeouts and trigger requests; it equals
\* num_obis_codes_ only from the last response of a cycle to the next BEGIN
C27_CursorBound ==
    /\ current_obis_index_ \in 0..num_obis_codes_
    /\ state_ = "ASK_FOR_ENERGY" => current_obis_index_ < num_obis_codes_
    /\ current_obis_index_ = num_obis_codes_
         => \/ state_ \in {"UPDATE_STATES", "INFINITE_WAIT", "BEGIN"}
            \/ state_ = "WAIT" /\ wait_next_state_ = "BEGIN"

\* the last request of an attempt that follows a completed cycle and a retry
C27_Witness ==
    /\ state_ = "ASK_FOR_ENERGY"
    /\ current_obis_index_ = num_obis_codes_ - 1
    /\ current_obis_index_ >= 1
    /\ retry_counter_ >= 1
    /\ h_att.sink.n = 1
    /\ h_cyc.preempted

\* a cycle ends with periodic readout enabled: wait_next_readout_ is reached
CycleEnds ==
    /\ ~force_mode_d_
    /\ is_periodic_readout_enabled_
    /\ h_cyc.over = "no"
    /\ h_cyc'.over # "no"

\* the time since the anchor was taken, in unsigned arithmetic
AnchorAge == Sub(millis, scheduled_connection_start_timestamp_)

\* the wait that the cadence asks for is armed
CadenceWaitArmed ==
    /\ state_' = "WAIT"
    /\ wait_next_state_' = "BEGIN"
    /\ wait_start_timestamp_' = millis
    /\ wait_period_ms_' = IF AnchorAge > update_interval_ms_ THEN 0
                          ELSE update_interval_ms_ - AnchorAge

\* the anchor is taken by the first BEGIN handler of a cycle and by nothing
\* else; the BEGIN the scheduled wait leads to comes update_interval_ms_
\* after the anchor or later
AnchorKept ==
    /\ [][(state_ = "BEGIN" /\ Loop /\ ~TimeoutGuard)
            => IF h_cyc.begun
               THEN UNCHANGED scheduled_connection_start_timestamp_
               ELSE scheduled_connection_start_timestamp_' = millis]_vars
    /\ [][scheduled_connection_start_timestamp_'
              # scheduled_connection_start_timestamp_
            => \/ state_ = "BEGIN" /\ Loop /\ ~h_cyc.begun
               \/ ClockAdvance]_vars
    /\ [][(/\ state_ = "WAIT"
           /\ h_cyc.over # "no"
           /\ is_periodic_readout_enabled_
           /\ Loop
           /\ state_' = "BEGIN") => AnchorAge >= update_interval_ms_]_vars

\* C28 as stated: whenever a cycle ends with periodic readout enabled, the
\* anchor is the time of the first BEGIN handler of that cycle, and the wait
\* armed is update_interval_ms_ minus the time since then, 0 when that time
\* exceeds update_interval_ms_
C28_CadenceAnchor ==
    /\ AnchorKept
    /\ [][CycleEnds => h_cyc.begun /\ CadenceWaitArmed]_vars

\* C28 amended: that holds of every cycle in which the BEGIN handler ran; a
\* cycle the timeout guard gave up before its BEGIN handler ran has no anchor
\* of its own and arms the wait from the anchor of the cycle before
C28_CadenceAnchorAmended ==
    /\ AnchorKept
    /\ [][(CycleEnds /\ h_cyc.begun)
            => scheduled_timestamp_set_ /\ CadenceWaitArmed]_vars
    /\ [][(CycleEnds /\ ~h_cyc.begun)
            => ~scheduled_timestamp_set_ /\ CadenceWaitArmed]_vars

\* a cycle with a retry ended before the interval was over
C28_Witness ==
    /\ state_ = "WAIT"
    /\ wait_next_state_ = "BEGIN"
    /\ h_cyc.over = "exhausted"
    /\ h_cyc.begun
    /\ h_cyc.begins >= 2
    /\ wait_start_timestamp_ = millis
    /\ AnchorAge \in 1..(update_interval_ms_ - 1)
    /\ wait_period_ms_ = update_interval_ms_ - AnchorAge

\* C26: with loop() called again and again and the clock advancing, whatever
\* the meter sends, the machine gets from every state other than WAIT and
\* INFINITE_WAIT to one of those two, and with periodic readout it is in BEGIN
\* again and again
C26_NoHang ==
    /\ (setup_done /\ ~is_wait_state_) ~> is_wait_state_
    /\ (setup_done /\ is_periodic_readout_enabled_) ~> (state_ = "BEGIN")

=============================================================================
